---- MODULE Spec2Model ----
(***************************************************************************)
(* Model of the document field-extraction engine and of the operation      *)
(* numbering of proyecto_caja_chica (boleta_api).                          *)
(*                                                                         *)
(* Python strings are sequences of one-character strings; None is the      *)
(* value NoneVal, which is no character sequence.                          *)
(***************************************************************************)
EXTENDS Integers, Sequences, FiniteSets, TLC

VARIABLES
    \* --- OperacionSecuencia (models.py) ---
    filas,        \* committed rows of OperacionSecuencia: clave -> [existe, secuencia]
    candado,      \* clave -> caller holding the row lock / the uncommitted insert, 0 if none
    pcS,          \* caller -> position inside generar_numero
    claveS,       \* caller -> <<tipo, fecha>> it asks for
    objS,         \* caller -> secuencia_obj.secuencia held in memory
    numS,         \* caller -> identifier returned, NoneVal before the return
    hechasS,      \* clave -> number of completed calls (history)
    inicialS,     \* clave -> secuencia stored before the first call (history)
    viaS,         \* caller -> how get_or_create obtained the row (history)
    \* --- guardar_documento / generar_numero_operacion (views.py, extraccion.py) ---
    documentos,   \* numero_operacion of the committed DocumentoGasto rows
    dbUp,         \* whether the database can be reached
    pcD,          \* request -> position inside guardar_documento
    numD,         \* request -> datos_extraidos["numero_operacion"], NoneVal before
    statusD,      \* request -> HTTP status of the response and the step that gave it
    \* --- extraer_datos_qr (extraccion.py) ---
    contenidoQ,   \* the text decoded from the QR code, NoneVal when there is none
    datosQ,       \* datos returned by extraer_datos_qr
    pcQ,          \* position of the QR scan
    \* --- procesar_datos_ocr (extraccion.py) ---
    entradaO,     \* the argument: a text, or an image (its OCR text and its QR text)
    relojO,       \* datetime.now() during the call
    filaO,        \* the row boleta_api_razonsocial holds for the ruc, NoneVal for none
    datosO,       \* the dict returned
    pcO,          \* position of the call
    \* --- procesar_documento_celery (task.py) ---
    paginaT,      \* the page or image file: native text, OCR text, QR text
    relojT,       \* datetime.now() during the task
    filaT,        \* the row boleta_api_razonsocial holds for the ruc, NoneVal for none
    datosOcrT,    \* datos as procesar_datos_ocr returned it
    datosQrT,     \* datos_qr, NoneVal when no image was scanned
    resultadoT,   \* the entry appended to resultados
    pcT,          \* position of the task
    \* --- normalizar_monto and the detectors called on their own (extraccion.py) ---
    llamadaF,     \* the call: the function and its arguments
    salidaF,      \* the value returned
    pcF,          \* position of the call
    \* --- procesar_documento_celery on a PDF of several pages (task.py) ---
    docP,         \* the pages of the PDF: native text, OCR text, QR text, whether rendering raises
    relojP,       \* datetime.now() during the task
    estadoP,      \* page -> state of its future in the executor
    resP,         \* page -> the entry procesar_pagina returned, NoneVal before
    terminadasP,  \* the pages in the order their workers finished (history)
    resultadosP,  \* the entries list(executor.map(...)) has taken so far
    sigP,         \* the page whose result the task waits for next
    retornoP,     \* the value the task returned
    pcP,          \* position of the task
    \* --- procesar_datos_ocr on the path of a PDF (extraccion.py, ocr_utils.py) ---
    docR,         \* paginas, what procesar_pdf returned for the file
    relojR,       \* datetime.now() during the call
    qrDatosR,     \* qr_datos, the dict the page workers share
    pendR,        \* page -> the assignments to qr_datos its worker has still to make
    estadoR,      \* page -> state of its future in the executor
    textosR,      \* page -> the text its worker returned, NoneVal before
    datosR,       \* the dict returned
    pcR,          \* position of the call
    \* --- procesar_documento_celery, one page step by step (task.py) ---
    paginaK,      \* the page or image file: native text, OCR text, QR text
    relojK,       \* datetime.now() during the task
    pcK,          \* the statement the worker of the page is at
    pasosK,       \* the steps the worker has done, in order (history)
    textoK,       \* texto_crudo
    imagenK,      \* whether imagen is not None
    datosK,       \* datos
    datosQrK,     \* datos_qr, NoneVal before the scan
    resK,         \* the entry of the page, NoneVal before
    \* --- procesar_datos_ocr on an image, statement by statement (extraccion.py, ocr_utils.py) ---
    entradaI,     \* the image given: width, height, what tesseract reads on it, what pyzbar decodes
    relojI,       \* datetime.now() during the call
    imgI,         \* <<width, height>> of img_opt
    pcI,          \* the statement the call is at
    fallosI,      \* the steps that raised so far (history)
    qrDatosI,     \* qr_datos
    textoI,       \* texto
    datosI,       \* the dict returned, NoneVal before
    \* --- generar_numero_operacion called again and again (extraccion.py) ---
    docsN,        \* numero_operacion of the stored DocumentoGasto rows
    prefijoN,     \* the prefix of the calls
    devueltosN,   \* the identifiers returned so far, in order (history)
    pcN           \* what comes next: a call, or the storing of the document

varsSeq == <<filas, candado, pcS, claveS, objS, numS, hechasS, inicialS, viaS>>
varsDoc == <<documentos, dbUp, pcD, numD, statusD>>
varsQr == <<contenidoQ, datosQ, pcQ>>
varsOcr == <<entradaO, relojO, filaO, datosO, pcO>>
varsTask == <<paginaT, relojT, filaT, datosOcrT, datosQrT, resultadoT, pcT>>
varsFn == <<llamadaF, salidaF, pcF>>
varsPag == <<docP, relojP, estadoP, resP, terminadasP, resultadosP, sigP, retornoP, pcP>>
varsRuta == <<docR, relojR, qrDatosR, pendR, estadoR, textosR, datosR, pcR>>
varsPasos == <<paginaK, relojK, pcK, pasosK, textoK, imagenK, datosK, datosQrK, resK>>
varsImg == <<entradaI, relojI, imgI, pcI, fallosI, qrDatosI, textoI, datosI>>
varsNum == <<docsN, prefijoN, devueltosN, pcN>>
vars == <<filas, candado, pcS, claveS, objS, numS, hechasS, inicialS, viaS,
          documentos, dbUp, pcD, numD, statusD,
          contenidoQ, datosQ, pcQ,
          entradaO, relojO, filaO, datosO, pcO,
          paginaT, relojT, filaT, datosOcrT, datosQrT, resultadoT, pcT,
          llamadaF, salidaF, pcF,
          docP, relojP, estadoP, resP, terminadasP, resultadosP, sigP, retornoP, pcP,
          docR, relojR, qrDatosR, pendR, estadoR, textosR, datosR, pcR,
          paginaK, relojK, pcK, pasosK, textoK, imagenK, datosK, datosQrK, resK,
          entradaI, relojI, imgI, pcI, fallosI, qrDatosI, textoI, datosI,
          docsN, prefijoN, devueltosN, pcN>>

\* the parts of the program a specification leaves out are not running
ReposoSeq ==
    /\ filas = <<>> /\ candado = <<>> /\ pcS = <<>> /\ claveS = <<>> /\ objS = <<>>
    /\ numS = <<>> /\ hechasS = <<>> /\ inicialS = <<>> /\ viaS = <<>>
ReposoDoc ==
    /\ documentos = {} /\ dbUp = TRUE /\ pcD = <<>> /\ numD = <<>> /\ statusD = <<>>
ReposoQr ==
    /\ contenidoQ = <<>> /\ datosQ = <<>> /\ pcQ = "off"
ReposoOcr ==
    /\ entradaO = <<>> /\ relojO = <<>> /\ filaO = <<>> /\ datosO = <<>> /\ pcO = "off"
ReposoTask ==
    /\ paginaT = <<>> /\ relojT = <<>> /\ filaT = <<>> /\ datosOcrT = <<>>
    /\ datosQrT = <<>> /\ resultadoT = <<>> /\ pcT = "off"
ReposoFn ==
    /\ llamadaF = <<>> /\ salidaF = <<>> /\ pcF = "off"
ReposoPag ==
    /\ docP = <<>> /\ relojP = <<>> /\ estadoP = <<>> /\ resP = <<>> /\ sigP = 0
    /\ terminadasP = <<>> /\ resultadosP = <<>> /\ retornoP = <<>> /\ pcP = "off"
ReposoRuta ==
    /\ docR = <<>> /\ relojR = <<>> /\ qrDatosR = <<>> /\ pendR = <<>> /\ estadoR = <<>>
    /\ textosR = <<>> /\ datosR = <<>> /\ pcR = "off"
ReposoPasos ==
    /\ paginaK = <<>> /\ relojK = <<>> /\ pcK = "off" /\ pasosK = <<>> /\ textoK = <<>>
    /\ imagenK = FALSE /\ datosK = <<>> /\ datosQrK = <<>> /\ resK = <<>>
ReposoImg ==
    /\ entradaI = <<>> /\ relojI = <<>> /\ imgI = <<>> /\ pcI = "off" /\ fallosI = {}
    /\ qrDatosI = <<>> /\ textoI = <<>> /\ datosI = <<>>
ReposoNum ==
    /\ docsN = {} /\ prefijoN = <<>> /\ devueltosN = <<>> /\ pcN = "off"

----------------------------------------------------------------------------
(* Python values *)

NoneVal == <<"<None>">>

Truthy(v) == v /= NoneVal /\ v /= <<>>

\* Python's `a or b`
Or(a, b) == IF Truthy(a) THEN a ELSE b

DigitChars == <<"0", "1", "2", "3", "4", "5", "6", "7", "8", "9">>
Digits == {DigitChars[i] : i \in 1..10}

\* the value of a digit character
DigitVal(c) == CHOOSE i \in 0..9 : DigitChars[i + 1] = c

\* the characters of the model in code-point order
CodePoints == <<"\t", "\n", "\r", " ", "$", "&", ",", "-", ".", "/",
                "0", "1", "2", "3", "4", "5", "6", "7", "8", "9", ":",
                "A", "B", "C", "D", "E", "F", "G", "H", "I", "J", "K", "L", "M",
                "N", "O", "P", "Q", "R", "S", "T", "U", "V", "W", "X", "Y", "Z",
                "_",
                "a", "b", "c", "d", "e", "f", "g", "h", "i", "j", "k", "l", "m",
                "n", "o", "p", "q", "r", "s", "t", "u", "v", "w", "x", "y", "z",
                "|">>

Ord(c) == CHOOSE i \in 1..Len(CodePoints) : CodePoints[i] = c

RECURSIVE Str(_)
\* str(n) for n >= 0
Str(n) == IF n < 10 THEN <<DigitChars[n + 1]>>
          ELSE Str(n \div 10) \o <<DigitChars[(n % 10) + 1]>>

RECURSIVE Zfill(_, _)
\* s.zfill(w): zeros on the left, after a leading sign
Zfill(s, w) ==
    IF Len(s) >= w THEN s
    ELSE IF Len(s) > 0 /\ s[1] \in {"+", "-"} THEN Zfill(<<s[1], "0">> \o Tail(s), w)
    ELSE Zfill(<<"0">> \o s, w)

IsDigits(s) == Len(s) > 0 /\ \A i \in 1..Len(s) : s[i] \in Digits

RECURSIVE DigitsVal(_)
\* int(s) for a string of digits
DigitsVal(s) == IF Len(s) = 0 THEN 0
                ELSE 10 * DigitsVal(SubSeq(s, 1, Len(s) - 1)) + DigitVal(s[Len(s)])

\* s.startswith(pre)
StartsWith(s, pre) == Len(s) >= Len(pre) /\ SubSeq(s, 1, Len(pre)) = pre

RECURSIVE LexLess(_, _)
\* a < b for strings
LexLess(a, b) ==
    IF Len(b) = 0 THEN FALSE
    ELSE IF Len(a) = 0 THEN TRUE
    ELSE IF a[1] /= b[1] THEN Ord(a[1]) < Ord(b[1])
    ELSE LexLess(Tail(a), Tail(b))

\* the least element of a non-empty set of numbers
Minimo(S) == CHOOSE x \in S : \A y \in S : x <= y

RECURSIVE SplitFrom(_, _, _)
SplitFrom(s, sep, i) ==
    LET js == {j \in i..Len(s) : s[j] = sep}
    IN IF js = {} THEN <<SubSeq(s, i, Len(s))>>
       ELSE LET j == Minimo(js)
            IN <<SubSeq(s, i, j - 1)>> \o SplitFrom(s, sep, j + 1)

\* s.split(sep) for a one-character separator
Split(s, sep) == SplitFrom(s, sep, 1)

----------------------------------------------------------------------------
(* Python's re: a pattern is a tree, matched by backtracking in the order   *)
(* Python tries the alternatives (greedy repeats first)                     *)

UpperChars == <<"A", "B", "C", "D", "E", "F", "G", "H", "I", "J", "K", "L", "M",
                "N", "O", "P", "Q", "R", "S", "T", "U", "V", "W", "X", "Y", "Z">>
LowerChars == <<"a", "b", "c", "d", "e", "f", "g", "h", "i", "j", "k", "l", "m",
                "n", "o", "p", "q", "r", "s", "t", "u", "v", "w", "x", "y", "z">>
\* [A-Z] and [a-z]
Upper == {UpperChars[i] : i \in 1..26}
Lower == {LowerChars[i] : i \in 1..26}
\* the accented letters of Spanish
UpperAccent == <<"Á", "É", "Í", "Ó", "Ú", "Ñ", "Ü">>
LowerAccent == <<"á", "é", "í", "ó", "ú", "ñ", "ü">>
AllUpper == UpperChars \o UpperAccent
AllLower == LowerChars \o LowerAccent
\* \s
Space == {" ", "\t", "\n", "\r", "\f"}
\* \w
WordChars ==
    {(AllUpper \o AllLower)[i] : i \in 1..(2 * Len(AllUpper))} \cup Digits \cup {"_", "º", "ª"}

\* c.upper() and c.lower()
UpperOf(c) ==
    IF \E i \in 1..Len(AllLower) : AllLower[i] = c
    THEN AllUpper[CHOOSE i \in 1..Len(AllLower) : AllLower[i] = c] ELSE c
LowerOf(c) ==
    IF \E i \in 1..Len(AllUpper) : AllUpper[i] = c
    THEN AllLower[CHOOSE i \in 1..Len(AllUpper) : AllUpper[i] = c] ELSE c

\* s.upper()
ToUpper(s) == [i \in 1..Len(s) |-> UpperOf(s[i])]

\* [...]
In(cs) == [t |-> "set", s |-> cs]
\* [^...]
NotIn(cs) == [t |-> "nset", s |-> cs]
\* .
AnyChar == NotIn({"\n"})
\* x1 x2 ... xn
Cat(xs) == [t |-> "cat", xs |-> xs]
\* x1 | x2 | ... | xn
Alt(xs) == [t |-> "alt", xs |-> xs]
\* x{lo,hi}, greedy; hi = -1 for no upper limit
Rep(x, lo, hi) == [t |-> "rep", x |-> x, lo |-> lo, hi |-> hi]
Opt(x) == Rep(x, 0, 1)
Star(x) == Rep(x, 0, -1)
Plus(x) == Rep(x, 1, -1)
\* (x) as group n
Grp(n, x) == [t |-> "grp", n |-> n, x |-> x]
\* \b, ^, $, (?=x)
WordB == [t |-> "wb"]
Bol == [t |-> "bol"]
Eol == [t |-> "eol"]
Ahead(x) == [t |-> "ahead", x |-> x]
\* a literal string; with re.IGNORECASE
Seguido(cs) == IF Len(cs) = 1 THEN In(cs[1]) ELSE [t |-> "lit", cs |-> cs]
Lit(str) == Seguido([i \in 1..Len(str) |-> {str[i]}])
LitI(str) == Seguido([i \in 1..Len(str) |-> {UpperOf(str[i]), LowerOf(str[i])}])
\* a class under re.IGNORECASE
CaseI(cs) == cs \cup {UpperOf(c) : c \in cs} \cup {LowerOf(c) : c \in cs}

IsWordAt(s, i) == i >= 1 /\ i <= Len(s) /\ s[i] \in WordChars

RECURSIVE ReM(_, _, _)
RECURSIVE ReCat(_, _, _, _)
RECURSIVE ReCatEach(_, _, _, _, _)
RECURSIVE ReAltFrom(_, _, _, _)
RECURSIVE ReRep(_, _, _, _)
RECURSIVE ReRepEach(_, _, _, _, _, _)

\* c is a character of the class re
EnClase(re, c) == IF re.t = "set" THEN c \in re.s ELSE c \notin re.s

\* how many characters of the class x follow each other from pos, hi at most
Corrida(x, s, pos, hi) ==
    LET tope == IF hi = -1 \/ pos + hi - 1 > Len(s) THEN Len(s) - pos + 1 ELSE hi
        fuera == {n \in 1..tope : ~EnClase(x, s[pos + n - 1])}
    IN IF fuera = {} THEN tope ELSE Minimo(fuera) - 1

\* x{lo,hi} for a class x: the longest run first, then one character less each time
ReRepClase(re, s, st) ==
    LET Veces(n) == IF n < re.lo THEN <<>>
                    ELSE [j \in 1..(n - re.lo + 1) |-> [st EXCEPT !.pos = @ + n - j + 1]]
    IN Veces(Corrida(re.x, s, st.pos, re.hi))

\* the ways pattern re matches s from state st = [pos, caps], best first
ReM(re, s, st) ==
    CASE re.t \in {"set", "nset"} ->
            IF st.pos <= Len(s) /\ EnClase(re, s[st.pos])
            THEN <<[st EXCEPT !.pos = @ + 1]>> ELSE <<>>
      [] re.t = "lit" ->
            IF st.pos + Len(re.cs) - 1 <= Len(s)
               /\ \A i \in 1..Len(re.cs) : s[st.pos + i - 1] \in re.cs[i]
            THEN <<[st EXCEPT !.pos = @ + Len(re.cs)]>> ELSE <<>>
      [] re.t = "cat" -> ReCat(re.xs, 1, s, st)
      [] re.t = "alt" -> ReAltFrom(re.xs, 1, s, st)
      [] re.t = "rep" ->
            IF re.x.t \in {"set", "nset"} THEN ReRepClase(re, s, st) ELSE ReRep(re, s, st, 0)
      [] re.t = "grp" ->
            LET Capturar(sts) ==
                    [j \in 1..Len(sts) |->
                        [sts[j] EXCEPT !.caps = (re.n :> <<st.pos, sts[j].pos>>) @@ @]]
            IN Capturar(ReM(re.x, s, st))
      [] re.t = "wb" ->
            IF Cardinality({i \in {st.pos - 1, st.pos} : IsWordAt(s, i)}) = 1
            THEN <<st>> ELSE <<>>
      [] re.t = "bol" -> IF st.pos = 1 THEN <<st>> ELSE <<>>
      [] re.t = "eol" ->
            IF st.pos = Len(s) + 1 \/ (st.pos = Len(s) /\ s[st.pos] = "\n")
            THEN <<st>> ELSE <<>>
      [] re.t = "ahead" -> IF ReM(re.x, s, st) /= <<>> THEN <<st>> ELSE <<>>

ReCat(xs, k, s, st) ==
    IF k > Len(xs) THEN <<st>>
    ELSE ReCatEach(xs, k, s, ReM(xs[k], s, st), 1)

ReCatEach(xs, k, s, sts, j) ==
    IF j > Len(sts) THEN <<>>
    ELSE ReCat(xs, k + 1, s, sts[j]) \o ReCatEach(xs, k, s, sts, j + 1)

ReAltFrom(xs, k, s, st) ==
    IF k > Len(xs) THEN <<>>
    ELSE ReM(xs[k], s, st) \o ReAltFrom(xs, k + 1, s, st)

ReRep(re, s, st, n) ==
    (IF re.hi = -1 \/ n < re.hi
     THEN ReRepEach(re, s, st, ReM(re.x, s, st), 1, n) ELSE <<>>)
    \o (IF n >= re.lo THEN <<st>> ELSE <<>>)

ReRepEach(re, s, st0, sts, j, n) ==
    IF j > Len(sts) THEN <<>>
    ELSE (IF sts[j].pos > st0.pos THEN ReRep(re, s, sts[j], n + 1) ELSE <<>>)
         \o ReRepEach(re, s, st0, sts, j + 1, n)

NoMatch == [start |-> 0, end |-> 0, caps |-> <<>>]

\* re.match(re, s) tried at position i
ReMatchAt(re, s, i) ==
    LET Primera(sts) == IF sts = <<>> THEN NoMatch
                        ELSE [start |-> i, end |-> sts[1].pos, caps |-> sts[1].caps]
    IN Primera(ReM(re, s, [pos |-> i, caps |-> <<>>]))

RECURSIVE ReSearchIn(_, _, _, _)
\* the leftmost match starting at a position of lo..hi
ReSearchIn(re, s, lo, hi) ==
    IF lo > hi THEN NoMatch
    ELSE IF lo = hi THEN ReMatchAt(re, s, lo)
    ELSE LET mid == (lo + hi) \div 2
             m == ReSearchIn(re, s, lo, mid)
         IN IF m /= NoMatch THEN m ELSE ReSearchIn(re, s, mid + 1, hi)

\* the leftmost match starting at i or later
ReSearchFrom(re, s, i) == ReSearchIn(re, s, i, Len(s) + 1)

\* re.search(re, s) succeeds
ReSearch(re, s) == ReSearchFrom(re, s, 1) /= NoMatch

\* re.match(re, s) succeeds
ReMatch(re, s) == ReMatchAt(re, s, 1) /= NoMatch

RECURSIVE ReFindIterFrom(_, _, _)
ReFindIterFrom(re, s, i) ==
    LET Seguir(m) ==
            IF m = NoMatch THEN <<>>
            ELSE <<m>> \o ReFindIterFrom(re, s, IF m.end > m.start THEN m.end ELSE m.end + 1)
    IN Seguir(ReSearchFrom(re, s, i))

\* re.finditer(re, s): the non-overlapping matches, left to right
ReFindIter(re, s) == ReFindIterFrom(re, s, 1)

\* m.group(0) and m.group(n)
Group0(s, m) == SubSeq(s, m.start, m.end - 1)
GroupN(s, m, n) ==
    IF n \in DOMAIN m.caps THEN SubSeq(s, m.caps[n][1], m.caps[n][2] - 1) ELSE NoneVal

RECURSIVE ReSubFrom(_, _, _, _, _)
ReSubFrom(ms, k, s, repl, i) ==
    IF k > Len(ms) THEN SubSeq(s, i, Len(s))
    ELSE SubSeq(s, i, ms[k].start - 1) \o repl
         \o ReSubFrom(ms, k + 1, s, repl, ms[k].end)

\* re.sub(re, repl, s) for a replacement without group references
ReSub(re, repl, s) ==
    IF re.t \in {"set", "nset"} /\ repl = <<>>
    THEN SelectSeq(s, LAMBDA c : ~EnClase(re, c))
    ELSE IF re.t \in {"set", "nset"} /\ Len(repl) = 1
    THEN [i \in 1..Len(s) |-> IF EnClase(re, s[i]) THEN repl[1] ELSE s[i]]
    ELSE ReSubFrom(ReFindIter(re, s), 1, s, repl, 1)

\* s.replace(old, new) for a non-empty old
Replace(s, old, new) == ReSub(Lit(old), new, s)

\* old in s
Contains(s, old) ==
    \E i \in 1..(Len(s) - Len(old) + 1) : SubSeq(s, i, i + Len(old) - 1) = old

\* s.lstrip(), s.rstrip()
StripLeft(s) ==
    LET js == {j \in 1..Len(s) : s[j] \notin Space}
    IN IF js = {} THEN <<>> ELSE SubSeq(s, Minimo(js), Len(s))
StripRight(s) ==
    LET js == {j \in 1..Len(s) : s[j] \notin Space}
    IN IF js = {} THEN <<>> ELSE SubSeq(s, 1, CHOOSE j \in js : \A k \in js : k <= j)

\* s.strip()
Strip(s) == StripLeft(StripRight(s))

SaltosDeLinea == {"\n", "\r", "\f"}

RECURSIVE SplitLinesFrom(_, _)
SplitLinesFrom(s, i) ==
    IF i > Len(s) THEN <<>>
    ELSE LET js == {j \in i..Len(s) : s[j] \in SaltosDeLinea}
         IN IF js = {} THEN <<SubSeq(s, i, Len(s))>>
            ELSE LET j == Minimo(js)
                 IN <<SubSeq(s, i, j - 1)>>
                    \o SplitLinesFrom(s, IF s[j] = "\r" /\ j < Len(s) /\ s[j + 1] = "\n"
                                          THEN j + 2 ELSE j + 1)

\* s.splitlines()
SplitLines(s) == SplitLinesFrom(s, 1)

RECURSIVE Join(_, _)
\* sep.join(xs)
Join(sep, xs) ==
    IF Len(xs) = 0 THEN <<>>
    ELSE IF Len(xs) = 1 THEN xs[1]
    ELSE xs[1] \o sep \o Join(sep, Tail(xs))

RECURSIVE SelectSeqTruthy(_)
\* [l.strip() for l in lineas if l.strip()]
SelectSeqTruthy(xs) ==
    IF Len(xs) = 0 THEN <<>>
    ELSE (IF Strip(xs[1]) /= <<>> THEN <<Strip(xs[1])>> ELSE <<>>)
         \o SelectSeqTruthy(Tail(xs))

----------------------------------------------------------------------------
(* decimal numbers written as strings of digits *)

RECURSIVE StripZeros(_)
\* the digits without leading zeros ("" for zero)
StripZeros(ds) == IF Len(ds) > 0 /\ ds[1] = "0" THEN StripZeros(Tail(ds)) ELSE ds

RECURSIVE PadRight(_, _)
PadRight(ds, w) == IF Len(ds) >= w THEN ds ELSE PadRight(Append(ds, "0"), w)

\* the number written as digits[.digits]: <<integer digits, fraction digits>>
DecParse(txt) ==
    LET Partes(ps) == <<StripZeros(ps[1]), IF Len(ps) > 1 THEN ps[2] ELSE <<>>>>
    IN Partes(Split(txt, "."))

DecIsZero(v) == v[1] = <<>> /\ \A i \in 1..Len(v[2]) : v[2][i] = "0"

\* a < b
DecLess(a, b) ==
    IF Len(a[1]) /= Len(b[1]) THEN Len(a[1]) < Len(b[1])
    ELSE LET w == IF Len(a[2]) > Len(b[2]) THEN Len(a[2]) ELSE Len(b[2])
         IN LexLess(a[1] \o PadRight(a[2], w), b[1] \o PadRight(b[2], w))

RECURSIVE DecMax(_)
\* max(numeros) for a non-empty list
DecMax(vs) ==
    IF Len(vs) = 1 THEN vs[1]
    ELSE LET m == DecMax(Tail(vs)) IN IF DecLess(vs[1], m) THEN m ELSE vs[1]

RECURSIVE AddOne(_)
\* the digits of n + 1
AddOne(ds) ==
    IF Len(ds) = 0 THEN <<"1">>
    ELSE IF ds[Len(ds)] = "9" THEN Append(AddOne(SubSeq(ds, 1, Len(ds) - 1)), "0")
    ELSE Append(SubSeq(ds, 1, Len(ds) - 1), DigitChars[DigitVal(ds[Len(ds)]) + 2])

\* "{:.2f}".format(v) and Decimal.quantize(Decimal('0.00')) of a non-negative
\* number: to the nearest cent, an exact half to the even cent. (A float that
\* is no exact half in binary rounds by its representation error, and one of
\* more than 15 digits is not the number written; the inputs drawn stay clear
\* of both.)
Format2(v) ==
    LET Arriba(cents, resto, mitad) ==
            \/ LexLess(mitad, resto)
            \/ resto = mitad /\ DigitVal(cents[Len(cents)]) % 2 = 1
        Redondear(cents, resto) ==
            IF Arriba(cents, resto, PadRight(<<"5">>, Len(resto)))
            THEN AddOne(cents) ELSE cents
        ConPunto(c) == SubSeq(c, 1, Len(c) - 2) \o <<".">> \o SubSeq(c, Len(c) - 1, Len(c))
        Centimos(frac) ==
            ConPunto(Zfill(StripZeros(Redondear(v[1] \o SubSeq(frac, 1, 2),
                                                SubSeq(frac, 3, Len(frac)))), 3))
    IN Centimos(PadRight(v[2], 3))

----------------------------------------------------------------------------
(* extraer_datos_qr: the decoding of the QR text *)

DatosQrVacios ==
    [ruc_emisor |-> NoneVal, numero_documento |-> NoneVal, total |-> NoneVal,
     fecha_emision |-> NoneVal, tipo_documento |-> NoneVal]

\* tipo_map.get(tipo_codigo, "OTROS")
TipoMap(tipo_codigo) ==
    CASE tipo_codigo = <<"0", "1">> ->
            <<"F", "A", "C", "T", "U", "R", "A", " ",
              "E", "L", "E", "C", "T", "R", "Ó", "N", "I", "C", "A">>
      [] tipo_codigo = <<"0", "3">> ->
            <<"B", "O", "L", "E", "T", "A", " ", "D", "E", " ", "V", "E", "N", "T", "A", " ",
              "E", "L", "E", "C", "T", "R", "Ó", "N", "I", "C", "A">>
      [] tipo_codigo = <<"0", "7">> ->
            <<"N", "O", "T", "A", " ", "D", "E", " ", "C", "R", "É", "D", "I", "T", "O", " ",
              "E", "L", "E", "C", "T", "R", "Ó", "N", "I", "C", "A">>
      [] tipo_codigo = <<"0", "8">> ->
            <<"N", "O", "T", "A", " ", "D", "E", " ", "D", "É", "B", "I", "T", "O", " ",
              "E", "L", "E", "C", "T", "R", "Ó", "N", "I", "C", "A">>
      [] OTHER -> <<"O", "T", "R", "O", "S">>

\* len(partes) >= 4 opens the decoding
MinPartesQr == 4

\* correlativo.zfill(8)
AnchoCorrelativo == 8

NumeroDocumentoQrSinRelleno(serie, correlativo) ==
    IF serie /= <<>> THEN serie \o <<"-">> \o correlativo ELSE NoneVal

\* f"{serie}-{correlativo}" if serie else None
NumeroDocumentoQr(serie, correlativo) ==
    IF serie /= <<>> THEN serie \o <<"-">> \o Zfill(correlativo, AnchoCorrelativo)
    ELSE NoneVal

\* r"^\d+(\.\d+)?$"
PatNumeroQr ==
    Cat(<<Bol, Plus(In(Digits)), Opt(Cat(<<In({"."}), Plus(In(Digits))>>)), Eol>>)

\* whether a segment after the fourth is a candidate for the total
EsCandidatoTotal(p, ruc_clean, numdoc_clean) ==
    LET Entero(p_int) ==
            /\ p_int /= ruc_clean
            /\ p_int /= numdoc_clean
            /\ Len(p_int) /= 11
            /\ Len(p_int) /= 8
        Limpio(p_clean) ==
            /\ ReMatch(PatNumeroQr, p_clean)
            /\ Entero(Replace(p_clean, <<".">>, <<>>))
            /\ ~DecIsZero(DecParse(StripRight(p_clean)))
    IN Limpio(Replace(p, <<",">>, <<".">>))

RECURSIVE NumerosQr(_, _, _, _)
\* numeros: the candidates among partes[4:], as numbers
NumerosQr(partes, i, ruc_clean, numdoc_clean) ==
    IF i > Len(partes) THEN <<>>
    ELSE (IF EsCandidatoTotal(partes[i], ruc_clean, numdoc_clean)
          THEN <<DecParse(StripRight(Replace(partes[i], <<",">>, <<".">>)))>> ELSE <<>>)
         \o NumerosQr(partes, i + 1, ruc_clean, numdoc_clean)

TotalQr(partes, ruc_emisor, numero_documento) ==
    LET ruc_clean == IF Truthy(ruc_emisor) THEN Replace(ruc_emisor, <<"-">>, <<>>) ELSE <<>>
        numdoc_clean == IF Truthy(numero_documento)
                        THEN Replace(numero_documento, <<"-">>, <<>>) ELSE <<>>
        Mayor(numeros) == IF numeros /= <<>> THEN Format2(DecMax(numeros)) ELSE NoneVal
    IN Mayor(NumerosQr(partes, 5, ruc_clean, numdoc_clean))

D2 == Rep(In(Digits), 2, 2)
D4 == Rep(In(Digits), 4, 4)

\* r"(\d{2}/\d{2}/\d{4}|\d{2}-\d{2}-\d{4}|\d{4}-\d{2}-\d{2})"
FechaPatronQr ==
    Alt(<<Cat(<<D2, In({"/"}), D2, In({"/"}), D4>>),
          Cat(<<D2, In({"-"}), D2, In({"-"}), D4>>),
          Cat(<<D4, In({"-"}), D2, In({"-"}), D2>>)>>)

\* the date token f rewritten as YYYY-MM-DD
NormalizarFechaQr(f) ==
    IF Contains(f, <<"/">>)
    THEN LET x == Split(f, "/") IN x[3] \o <<"-">> \o x[2] \o <<"-">> \o x[1]
    ELSE LET x == Split(f, "-")
         IN IF Len(x[1]) = 4 THEN f
            ELSE IF Len(x[1]) = 2 THEN x[3] \o <<"-">> \o x[2] \o <<"-">> \o x[1]
            ELSE NoneVal

RECURSIVE FechaQr(_, _)
\* the first segment that starts with a date, normalised
FechaQr(partes, i) ==
    IF i > Len(partes) THEN NoneVal
    ELSE LET p == Strip(partes[i])
             m == ReMatchAt(FechaPatronQr, p, 1)
         IN IF m /= NoMatch THEN NormalizarFechaQr(Group0(p, m))
            ELSE FechaQr(partes, i + 1)

\* extraer_datos_qr once the QR text is decoded; contenido = NoneVal when the
\* image holds no QR code
extraer_datos_qr(contenido) ==
    IF contenido = NoneVal THEN DatosQrVacios
    ELSE LET partes == Split(Strip(contenido), "|")
         IN IF Len(partes) >= MinPartesQr
            THEN LET ruc_emisor == Or(Strip(partes[1]), NoneVal)
                     numero_documento == NumeroDocumentoQr(Strip(partes[3]), Strip(partes[4]))
                 IN [ruc_emisor |-> ruc_emisor,
                     tipo_documento |-> TipoMap(Strip(partes[2])),
                     numero_documento |-> numero_documento,
                     total |-> TotalQr(partes, ruc_emisor, numero_documento),
                     fecha_emision |-> FechaQr(partes, 1)]
            ELSE DatosQrVacios

----------------------------------------------------------------------------
(* detectar_ruc *)

RucExcluidosNinguno == {}

RUC_EXCLUIDOS == {<<"2", "0", "5", "0", "8", "5", "5", "8", "9", "9", "7">>}

PrefijosRuc == {<<"1", "0">>, <<"1", "5">>, <<"1", "6">>, <<"1", "7">>, <<"2", "0">>}

\* mapa_errores: the letters OCR gives for digits
MapaErrores(c) ==
    CASE c \in {"C", "D", "O", "Q"} -> "0"
      [] c \in {"I", "L"} -> "1"
      [] c = "S" -> "5"
      [] c = "B" -> "8"
      [] c = "G" -> "6"
      [] c = "Z" -> "2"
      [] OTHER -> c

Translate(s) == [i \in 1..Len(s) |-> MapaErrores(s[i])]

\* re.sub(r"[^\d]", "", s)
SoloDigitos(s) == ReSub(NotIn(Digits), <<>>, s)

LargoRuc == 11

\* s[:n]
Prefijo(s, n) == SubSeq(s, 1, IF Len(s) < n THEN Len(s) ELSE n)

\* not excluded, a registrant prefix, 11 digits
RucValido(r) ==
    /\ r \notin RUC_EXCLUIDOS
    /\ Prefijo(r, 2) \in PrefijosRuc
    /\ Len(r) = LargoRuc

\* r"\b[\dA-Z]{11}\b"
PatRucToken == Cat(<<WordB, Rep(In(Digits \cup Upper), 11, 11), WordB>>)

\* r"(RUC)(\d{11})"
PatRucPegado == Cat(<<Grp(1, Lit(<<"R", "U", "C">>)), Grp(2, Rep(In(Digits), 11, 11))>>)

RECURSIVE SepararRucFrom(_, _, _, _)
SepararRucFrom(ms, k, s, i) ==
    IF k > Len(ms) THEN SubSeq(s, i, Len(s))
    ELSE SubSeq(s, i, ms[k].start - 1) \o GroupN(s, ms[k], 1) \o <<" ">> \o GroupN(s, ms[k], 2)
         \o SepararRucFrom(ms, k + 1, s, ms[k].end)

\* re.sub(r"(RUC)(\d{11})", r"\1 \2", s)
SepararRuc(s) == SepararRucFrom(ReFindIter(PatRucPegado, s), 1, s, 1)

PatronesRuc == {<<"R", "U", "C">>, <<"R", "U", "0">>, <<"R", "U", "O">>,
                <<"R", "U", "G">>, <<"P", "U", "C">>}

RECURSIVE RucsValidos(_, _, _)
\* the valid r_norm among the tokens of a line, in order
RucsValidos(s, ms, k) ==
    IF k > Len(ms) THEN <<>>
    ELSE LET Valido(r_norm) == IF RucValido(r_norm) THEN <<r_norm>> ELSE <<>>
         IN Valido(SoloDigitos(Translate(Group0(s, ms[k])))) \o RucsValidos(s, ms, k + 1)

\* the valid RUCs among the tokens of a cleaned line
TokensRuc(linea_limpia) ==
    RucsValidos(linea_limpia, ReFindIter(PatRucToken, linea_limpia), 1)

\* if any(pat in linea_limpia for pat in patrones_ruc)
TokensRucClave(linea_limpia) ==
    IF \E p \in PatronesRuc : Contains(linea_limpia, p)
    THEN TokensRuc(linea_limpia) ELSE <<>>

\* paso 2: lines with a RUC keyword
RucsDeLineaClave(linea) ==
    TokensRucClave(SepararRuc(ReSub(In(Space \cup {":", "."}), <<>>, linea)))

\* paso 3: any token of a line
RucsDeLinea(linea) == TokensRuc(ReSub(NotIn(Digits \cup Upper), <<>>, linea))

RECURSIVE PrimerRuc(_, _, _)
\* the first valid RUC over the lines, by keyword lines (clave) or by any line
PrimerRuc(lineas, k, clave) ==
    IF k > Len(lineas) THEN NoneVal
    ELSE LET Primero(rs) == IF rs /= <<>> THEN rs[1] ELSE PrimerRuc(lineas, k + 1, clave)
         IN Primero(IF clave THEN RucsDeLineaClave(lineas[k]) ELSE RucsDeLinea(lineas[k]))

LineasRuc == 10

\* paso 1: the RUC of the QR text
RucDeQr(qr_data) ==
    IF ~Truthy(qr_data) THEN NoneVal
    ELSE LET Valido(qr_ruc) == IF RucValido(qr_ruc) THEN qr_ruc ELSE NoneVal
         IN Valido(SoloDigitos(Strip(Split(qr_data, "|")[1])))

\* a, and b where a is None
SiNo(a, b) == IF a /= NoneVal THEN a ELSE b

\* pasos 2 and 3 over the first lines of the text
RucDeLineas(lineas) == SiNo(PrimerRuc(lineas, 1, TRUE), PrimerRuc(lineas, 1, FALSE))

detectar_ruc(texto, qr_data) ==
    SiNo(RucDeQr(qr_data),
         RucDeLineas(Prefijo(SplitLines(ToUpper(IF texto = NoneVal THEN <<>> ELSE texto)),
                             LineasRuc)))

----------------------------------------------------------------------------
(* detectar_numero_documento *)

\* "ND": no document number
ND == <<"N", "D">>

PrefijosValidos ==
    {<<"F">>, <<"F", "F">>, <<"F", "A">>, <<"F", "E">>, <<"F", "E", "N">>, <<"B">>,
     <<"B", "B">>, <<"E">>, <<"N", "C">>, <<"N", "D">>, <<"B", "E">>, <<"B", "V">>,
     <<"T", "K">>}

\* r"\b([A-Z]{1,3}\d{0,4})\s*(?:N[°ºO.]?\s*)?[-]?\s*(\d{1,14})\b"
PatronDocumento ==
    Cat(<<WordB,
          Grp(1, Cat(<<Rep(In(Upper), 1, 3), Rep(In(Digits), 0, 4)>>)),
          Star(In(Space)),
          Opt(Cat(<<In({"N"}), Opt(In({"°", "º", "O", "."})), Star(In(Space))>>)),
          Opt(In({"-"})),
          Star(In(Space)),
          Grp(2, Rep(In(Digits), 1, 14)),
          WordB>>)

\* r"\b\d{8}\b"
PatDni == Cat(<<WordB, Rep(In(Digits), 8, 8), WordB>>)

\* r"[A-Z]+\d+" at the start of the series
PatSerieConDigitos == Cat(<<Plus(In(Upper)), Plus(In(Digits))>>)

\* the heuristic priority of a candidate
Prioridad(serie, correlativo) ==
    (IF \E pre \in PrefijosValidos : StartsWith(serie, pre) THEN 3 ELSE 0)
    + (IF ReMatch(PatSerieConDigitos, serie) THEN 1 ELSE 0)
    + (Len(correlativo) \div 4)

RECURSIVE CandidatosDeLinea(_, _, _, _, _)
\* the candidates (numero, prioridad, idx) of one line
CandidatosDeLinea(linea, ms, k, idx, ignorar) ==
    IF k > Len(ms) THEN <<>>
    ELSE LET serie == GroupN(linea, ms[k], 1)
             correlativo == GroupN(linea, ms[k], 2)
             numero == serie \o <<"-">> \o correlativo
         IN (IF Replace(numero, <<"-">>, <<>>) \in ignorar THEN <<>>
             ELSE <<<<numero, Prioridad(serie, correlativo), idx>>>>)
            \o CandidatosDeLinea(linea, ms, k + 1, idx, ignorar)

RECURSIVE CandidatosDocumento(_, _, _)
CandidatosDocumento(lineas, idx, ignorar) ==
    IF idx > Len(lineas) THEN <<>>
    ELSE CandidatosDeLinea(lineas[idx], ReFindIter(PatronDocumento, lineas[idx]), 1,
                           idx - 1, ignorar)
         \o CandidatosDocumento(lineas, idx + 1, ignorar)

\* a sorts before b under key (-prioridad, -len(numero), idx)
AntesQue(a, b) ==
    \/ a[2] > b[2]
    \/ a[2] = b[2] /\ Len(a[1]) > Len(b[1])
    \/ a[2] = b[2] /\ Len(a[1]) = Len(b[1]) /\ a[3] < b[3]

\* candidatos.sort(key=...)[0]: the first candidate no other one sorts before
MejorCandidato(cs) ==
    cs[CHOOSE i \in 1..Len(cs) :
          /\ \A j \in 1..Len(cs) : ~AntesQue(cs[j], cs[i])
          /\ \A j \in 1..(i - 1) : AntesQue(cs[i], cs[j])]

RECURSIVE Grupos0(_, _, _)
\* re.findall for a pattern without groups
Grupos0(s, ms, k) ==
    IF k > Len(ms) THEN <<>> ELSE <<Group0(s, ms[k])>> \o Grupos0(s, ms, k + 1)

FindAll(re, s) == Grupos0(s, ReFindIter(re, s), 1)

SeqToSet(xs) == {xs[i] : i \in 1..Len(xs)}

\* .replace("O", "0").replace("I", "1").replace("L", "1")
LetrasADigitos(s) ==
    [i \in 1..Len(s) |-> CASE s[i] = "O" -> "0" [] s[i] \in {"I", "L"} -> "1" [] OTHER -> s[i]]

MejorNumeroCorrelativo(candidatos) ==
    IF candidatos /= <<>> THEN Split(MejorCandidato(candidatos)[1], "-")[2] ELSE ND

\* the number of the best candidate, "ND" without candidates
MejorNumero(candidatos) ==
    IF candidatos /= <<>> THEN MejorCandidato(candidatos)[1] ELSE ND

\* the candidates of the lines of texto_norm, but the RUC and the DNIs
NumeroDeTexto(texto_norm, ruc_valor) ==
    MejorNumero(CandidatosDocumento(SelectSeqTruthy(SplitLines(texto_norm)), 1,
                                    {ruc_valor} \cup SeqToSet(FindAll(PatDni, texto_norm))))

detectar_numero_documento(texto, numero_qr) ==
    IF Truthy(numero_qr) /\ Strip(numero_qr) /= <<>> THEN Strip(numero_qr)
    ELSE IF ~Truthy(texto) THEN ND
    ELSE NumeroDeTexto(LetrasADigitos(ToUpper(texto)), Or(detectar_ruc(texto, NoneVal), <<>>))

----------------------------------------------------------------------------
(* datetime: dates as <<year, month, day>> *)

Bisiesto(y) == y % 4 = 0 /\ (y % 100 /= 0 \/ y % 400 = 0)

DiasDelMes(y, m) ==
    IF m = 2 THEN (IF Bisiesto(y) THEN 29 ELSE 28)
    ELSE IF m \in {4, 6, 9, 11} THEN 30 ELSE 31

MAXYEAR == 9999

\* datetime(y, m, d) does not raise
EsFechaValida(y, m, d) ==
    y \in 1..MAXYEAR /\ m \in 1..12 /\ d \in 1..DiasDelMes(y, m)

\* date.toordinal(): the days since 0001-01-01, that day being 1
Ordinal(f) ==
    LET y == IF f[2] <= 2 THEN f[1] - 1 ELSE f[1]
        era == y \div 400
        yoe == y % 400
        doy == (153 * (IF f[2] > 2 THEN f[2] - 3 ELSE f[2] + 9) + 2) \div 5 + f[3] - 1
        doe == yoe * 365 + yoe \div 4 - yoe \div 100 + doy
    IN era * 146097 + doe - 305

\* f.strftime("%Y-%m-%d") with the C library of Linux (the year is not padded)
Strftime(f) == Str(f[1]) \o <<"-">> \o Zfill(Str(f[2]), 2) \o <<"-">> \o Zfill(Str(f[3]), 2)

D19 == In(Digits \ {"0"})
Dig == In(Digits)

\* the regular expressions of _strptime for %d, %m and %Y
StrpD == Alt(<<Cat(<<In({"3"}), In({"0", "1"})>>), Cat(<<In({"1", "2"}), Dig>>),
               Cat(<<In({"0"}), D19>>), D19, Cat(<<In({" "}), D19>>)>>)
StrpM == Alt(<<Cat(<<In({"1"}), In({"0", "1", "2"})>>), Cat(<<In({"0"}), D19>>), D19>>)
StrpY == Rep(Dig, 4, 4)

\* the four formats tried on the date of the QR; group 1 is the day, 2 the month, 3 the year
FormatosFechaQr ==
    <<Cat(<<Grp(1, StrpD), In({"/"}), Grp(2, StrpM), In({"/"}), Grp(3, StrpY)>>),
      Cat(<<Grp(3, StrpY), In({"-"}), Grp(2, StrpM), In({"-"}), Grp(1, StrpD)>>),
      Cat(<<Grp(1, StrpD), In({"-"}), Grp(2, StrpM), In({"-"}), Grp(3, StrpY)>>),
      Cat(<<Grp(1, StrpD), In({"."}), Grp(2, StrpM), In({"."}), Grp(3, StrpY)>>)>>

\* datetime.strptime(txt, fmt): the date, or NoneVal where it raises
Strptime(txt, fmt) ==
    LET SiValida(f) == IF EsFechaValida(f[1], f[2], f[3]) THEN f ELSE NoneVal
        Leer(m) ==
            IF m = NoMatch \/ m.end /= Len(txt) + 1 THEN NoneVal
            ELSE SiValida(<<DigitsVal(GroupN(txt, m, 3)), DigitsVal(GroupN(txt, m, 2)),
                            DigitsVal(Strip(GroupN(txt, m, 1)))>>)
    IN Leer(ReMatchAt(fmt, txt, 1))

----------------------------------------------------------------------------
(* detectar_fecha *)

RECURSIVE FechaQrFormatos(_, _)
FechaQrFormatos(qr_fecha, k) ==
    IF k > Len(FormatosFechaQr) THEN NoneVal
    ELSE LET Dar(f) == IF f /= NoneVal THEN Strftime(f)
                       ELSE FechaQrFormatos(qr_fecha, k + 1)
         IN Dar(Strptime(qr_fecha, FormatosFechaQr[k]))

CampoFechaQr == 7

\* the date of the seventh field of the QR text
FechaDeQr(qr_data) ==
    IF ~Truthy(qr_data) THEN NoneVal
    ELSE LET campos == Split(qr_data, "|")
         IN IF Len(campos) >= CampoFechaQr
            THEN FechaQrFormatos(Strip(campos[CampoFechaQr]), 1) ELSE NoneVal

\* "-" and the en and em dashes U+2013 and U+2014, each one character
Guiones == {"-", "U+2013", "U+2014"}

Separadores == Space \cup {"/", "."}

\* r'(\d{1,2}/\d{1,2}/\d{2,4})'
pat_num == Grp(1, Cat(<<Rep(Dig, 1, 2), In({"/"}), Rep(Dig, 1, 2), In({"/"}), Rep(Dig, 2, 4)>>))

\* r'(\d{4}/\d{1,2}/\d{1,2})'
pat_iso == Grp(1, Cat(<<Rep(Dig, 4, 4), In({"/"}), Rep(Dig, 1, 2), In({"/"}), Rep(Dig, 1, 2)>>))

meses_map ==
    <<<<<<"E", "N", "E">>, 1>>, <<<<"E", "N", "E", "R", "O">>, 1>>, <<<<"F", "E", "B">>, 2>>, <<<<"F", "E", "B", "R", "E", "R", "O">>, 2>>, <<<<"M", "A", "R">>, 3>>,
      <<<<"M", "A", "R", "Z", "O">>, 3>>, <<<<"A", "B", "R">>, 4>>, <<<<"A", "B", "R", "I", "L">>, 4>>, <<<<"M", "A", "Y">>, 5>>, <<<<"M", "A", "Y", "O">>, 5>>,
      <<<<"J", "U", "N">>, 6>>, <<<<"J", "U", "N", "I", "O">>, 6>>, <<<<"J", "U", "L">>, 7>>, <<<<"J", "U", "L", "I", "O">>, 7>>, <<<<"A", "G", "O">>, 8>>,
      <<<<"A", "G", "O", "S", "T", "O">>, 8>>, <<<<"S", "E", "P">>, 9>>, <<<<"S", "E", "P", "T">>, 9>>, <<<<"S", "E", "P", "T", "I", "E", "M", "B", "R", "E">>, 9>>, <<<<"O", "C", "T">>, 10>>,
      <<<<"O", "C", "T", "U", "B", "R", "E">>, 10>>, <<<<"N", "O", "V">>, 11>>, <<<<"N", "O", "V", "I", "E", "M", "B", "R", "E">>, 11>>, <<<<"D", "I", "C">>, 12>>,
      <<<<"D", "I", "C", "I", "E", "M", "B", "R", "E">>, 12>>>>

\* meses_map.get(txt): 0 for no month
MesDe(txt) ==
    LET Numero(pares) == IF pares = <<>> THEN 0 ELSE pares[1][2]
    IN Numero(SelectSeq(meses_map, LAMBDA fila : fila[1] = txt))

\* r'(\d{1,2})[\s/\.]+(ENE|ENERO|...)[\s/\.]+(\d{2,4})' with re.IGNORECASE
pat_text ==
    Cat(<<Grp(1, Rep(Dig, 1, 2)), Plus(In(Separadores)),
          Grp(2, Alt([k \in 1..Len(meses_map) |-> LitI(meses_map[k][1])])),
          Plus(In(Separadores)), Grp(3, Rep(Dig, 2, 4))>>)

\* r'FECHA\s*(DE\s*)?EMIS' with re.IGNORECASE
PatFechaEmision ==
    Cat(<<LitI(<<"F", "E", "C", "H", "A">>), Star(In(Space)), Opt(Cat(<<LitI(<<"D", "E">>), Star(In(Space))>>)),
          LitI(<<"E", "M", "I", "S">>)>>)

\* r'\bF\d{3,}-\d{3,}\b'
PatDocRef == Cat(<<WordB, In({"F"}), Rep(Dig, 3, -1), In({"-"}), Rep(Dig, 3, -1), WordB>>)

\* r'VENCIMEN' with re.IGNORECASE
PatVencimiento == LitI(<<"V", "E", "N", "C", "I", "M", "E", "N">>)

\* r'\b\d{1,2}\s*AL\s*\d{1,2}/\d{1,2}/\d{4}\b'
PatRango ==
    Cat(<<WordB, Rep(Dig, 1, 2), Star(In(Space)), Lit(<<"A", "L">>), Star(In(Space)),
          Rep(Dig, 1, 2), In({"/"}), Rep(Dig, 1, 2), In({"/"}), Rep(Dig, 4, 4), WordB>>)

Siglo == 2000

\* the <<year, month, day>> a match of the pattern of kind tipo stands for
FechaDeMatch(linea, m, tipo) ==
    LET Anio(y) == IF Len(y) = 4 THEN DigitsVal(y) ELSE Siglo + DigitsVal(y)
        Partes(partes) ==
            IF tipo = "num"
            THEN <<DigitsVal(partes[3]) + (IF Len(partes[3]) = 2 THEN Siglo ELSE 0),
                   DigitsVal(partes[2]), DigitsVal(partes[1])>>
            ELSE <<DigitsVal(partes[1]), DigitsVal(partes[2]), DigitsVal(partes[3])>>
    IN IF tipo \in {"num", "iso"} THEN Partes(Split(GroupN(linea, m, 1), "/"))
       ELSE <<Anio(GroupN(linea, m, 3)),
              MesDe(Replace(ToUpper(GroupN(linea, m, 2)), <<"0">>, <<"O">>)),
              DigitsVal(GroupN(linea, m, 1))>>

RECURSIVE FechasDeMatches(_, _, _, _, _)
\* the (idx, date) of the matches that stand for a date of the calendar
FechasDeMatches(linea, ms, k, tipo, idx) ==
    IF k > Len(ms) THEN <<>>
    ELSE LET SiValida(f) == IF EsFechaValida(f[1], f[2], f[3]) THEN <<<<idx, f>>>> ELSE <<>>
         IN SiValida(FechaDeMatch(linea, ms[k], tipo))
            \o FechasDeMatches(linea, ms, k + 1, tipo, idx)

FechasDeLinea(linea, idx) ==
    IF ReSearch(PatVencimiento, linea) \/ ReSearch(PatRango, linea) THEN <<>>
    ELSE FechasDeMatches(linea, ReFindIter(pat_num, linea), 1, "num", idx)
         \o FechasDeMatches(linea, ReFindIter(pat_iso, linea), 1, "iso", idx)
         \o FechasDeMatches(linea, ReFindIter(pat_text, linea), 1, "text", idx)

RECURSIVE FechasValidas(_, _)
FechasValidas(lineas, k) ==
    IF k > Len(lineas) THEN <<>>
    ELSE FechasDeLinea(lineas[k], k - 1) \o FechasValidas(lineas, k + 1)

\* the index of the last line the pattern is found in, -1 for none (None in the code)
UltimaLineaCon(lineas, re) ==
    LET Ultima(ks) == IF ks = {} THEN -1 ELSE (CHOOSE k \in ks : \A j \in ks : j <= k) - 1
    IN Ultima({k \in 1..Len(lineas) : ReSearch(re, lineas[k])})

AniosVentana == 5
DiasVentana == AniosVentana * 365

\* hoy - 5*365 days <= f <= hoy + 1 day; hoy = [dia: ordinal of today, resto: 1 after midnight]
EnVentana(f, hoy) ==
    /\ Ordinal(f) >= hoy.dia - DiasVentana + hoy.resto
    /\ Ordinal(f) <= hoy.dia + 1

Abs(n) == IF n < 0 THEN -n ELSE n

\* xs.sort(key=...)[0] for keys <<a, b>>: the first element of the least key
PrimeroPorClave(xs, Clave(_)) ==
    xs[CHOOSE i \in 1..Len(xs) :
          /\ \A j \in 1..Len(xs) :
                \/ Clave(xs[i])[1] < Clave(xs[j])[1]
                \/ Clave(xs[i])[1] = Clave(xs[j])[1] /\ Clave(xs[i])[2] <= Clave(xs[j])[2]
          /\ \A j \in 1..(i - 1) : Clave(xs[j]) /= Clave(xs[i])]

\* the text as the date search sees it
NormalizarTextoFecha(texto) ==
    ReSub(Plus(In(Space)), <<" ">>,
          ReSub(Cat(<<In({"."}), Ahead(Dig)>>), <<"/">>,
                ReSub(In(Guiones), <<"/">>, Replace(texto, <<"\r">>, <<"\n">>))))

\* the (idx, date) the search settles on: of the line of the issue date, or the
\* nearest to the line of the document number, or the first
ElegirFecha(fechas_filtradas, fecha_ref_idx, doc_ref_idx) ==
    IF fecha_ref_idx /= -1
    THEN LET DeRef(de_ref) == IF de_ref /= <<>> THEN de_ref[1] ELSE fechas_filtradas[1]
         IN DeRef(SelectSeq(fechas_filtradas, LAMBDA x : x[1] = fecha_ref_idx))
    ELSE IF doc_ref_idx /= -1
    THEN PrimeroPorClave(fechas_filtradas, LAMBDA x : <<Abs(x[1] - doc_ref_idx), x[1]>>)
    ELSE PrimeroPorClave(fechas_filtradas, LAMBDA x : <<x[1], 0>>)

\* fechas_filtradas: the dates within the window, all of them where none is
FiltrarVentana(fechas_validas, en_ventana) ==
    IF en_ventana = <<>> THEN fechas_validas ELSE en_ventana

FechaDeFechas(lineas, fechas_validas, hoy) ==
    IF fechas_validas = <<>> THEN NoneVal
    ELSE Strftime(ElegirFecha(FiltrarVentana(fechas_validas,
                                  SelectSeq(fechas_validas, LAMBDA x : EnVentana(x[2], hoy))),
                              UltimaLineaCon(lineas, PatFechaEmision),
                              UltimaLineaCon(lineas, PatDocRef))[2])

FechaDeLineas(lineas, hoy) == FechaDeFechas(lineas, FechasValidas(lineas, 1), hoy)

detectar_fecha(texto, qr_data, hoy) ==
    SiNo(FechaDeQr(qr_data),
         IF ~Truthy(texto) THEN NoneVal
         ELSE FechaDeLineas(SelectSeqTruthy(SplitLines(NormalizarTextoFecha(texto))), hoy))

----------------------------------------------------------------------------
(* detectar_total *)

\* the numerals Decimal(s) reads here: [sign] digits [. digits] or [sign] . digits
\* (the exponent, NaN, Infinity and underscore forms are not among the texts drawn)
PatDecimal ==
    Cat(<<Grp(1, Opt(In({"+", "-"}))),
          Grp(2, Alt(<<Cat(<<Plus(Dig), Opt(Cat(<<In({"."}), Star(Dig)>>))>>),
                       Cat(<<In({"."}), Plus(Dig)>>)>>)),
          Eol>>)

\* f"{Decimal(s).quantize(Decimal('0.00'))}", NoneVal where Decimal(s) raises or
\* where quantize raises: the context of decimal holds 28 digits, and a result
\* of more digits (26 before the point) is an InvalidOperation
DecimalDosDecimales(s) ==
    LET Cuantizar(signo, d) ==
            IF Len(StripZeros(SelectSeq(d, LAMBDA c : c /= "."))) > 28 THEN NoneVal
            ELSE signo \o d
        Leer(m) ==
            IF m = NoMatch \/ m.end /= Len(s) + 1 THEN NoneVal
            ELSE Cuantizar(IF GroupN(s, m, 1) = <<"-">> THEN <<"-">> ELSE <<>>,
                           Format2(DecParse(GroupN(s, m, 2))))
    IN Leer(ReMatchAt(PatDecimal, s, 1))

CampoTotalQr == 6

\* the total of the sixth field of the QR text
TotalDeQr(qr_data) ==
    IF ~Truthy(qr_data) THEN NoneVal
    ELSE LET Campo(campos) ==
                 IF Len(campos) >= CampoTotalQr
                 THEN DecimalDosDecimales(Replace(Strip(campos[CampoTotalQr]), <<",">>, <<>>))
                 ELSE NoneVal
         IN Campo(Split(qr_data, "|"))

claves_total == <<<<"T", "O", "T", "A", "L", " ", "A", " ", "P", "A", "G", "A", "R">>, <<"I", "M", "P", "O", "R", "T", "E", " ", "T", "O", "T", "A", "L">>, <<"M", "O", "N", "T", "O", " ", "T", "O", "T", "A", "L">>, <<"T", "O", "T", "A", "L", " ", "F", "A", "C", "T", "U", "R", "A">>, <<"T", "O", "T", "A", "L">>>>

ignorar_monto == <<<<"G", "R", "A", "V", "A", "D", "A">>, <<"I", "G", "V">>, <<"D", "E", "S", "C", "U", "E", "N", "T", "O">>, <<"R", "E", "T", "E", "N", "C", "I", "O", "N">>, <<"P", "E", "R", "I", "O", "D", "O">>, <<"O", "P", ".", " ", "G", "R", "A", "V", "A", "D", "A", "S">>>>

\* any(c in linea for c in palabras)
ContieneAlguna(linea, palabras) == \E k \in 1..Len(palabras) : Contains(linea, palabras[k])

\* the index of the last c in s, 0 for none
RFind(s, c) ==
    LET js == {j \in 1..Len(s) : s[j] = c}
    IN IF js = {} THEN 0 ELSE CHOOSE j \in js : \A k \in js : k <= j

\* "".join(partes[:-1]) + "." + partes[-1]
UnirMenosUltima(partes) ==
    Join(<<>>, SubSeq(partes, 1, Len(partes) - 1)) \o <<".">> \o partes[Len(partes)]

PuntoDecimalSinResolver(s) == s

PuntoDecimalComa(s) == Replace(Replace(s, <<".">>, <<>>), <<",">>, <<".">>)

\* the separators of an amount text resolved to one decimal point
PuntoDecimal(s) ==
    IF "," \in SeqToSet(s) /\ "." \in SeqToSet(s)
    THEN (IF RFind(s, ",") > RFind(s, ".")
          THEN Replace(Replace(s, <<".">>, <<>>), <<",">>, <<".">>)
          ELSE Replace(s, <<",">>, <<>>))
    ELSE IF "," \in SeqToSet(s)
    THEN (IF Len(Split(s, ",")) = 2 THEN Replace(s, <<",">>, <<".">>)
          ELSE UnirMenosUltima(Split(s, ",")))
    ELSE IF "." \in SeqToSet(s) /\ Len(Split(s, ".")) > 2
    THEN UnirMenosUltima(Split(s, "."))
    ELSE s

\* the inner normalizar_monto: the amount as <<integer digits, fraction digits>>, or NoneVal
\* (it is given the texts of PatMonto, which hold no sign)
MontoDeTexto(monto_txt) ==
    LET Positivo(d) ==
            IF d = NoneVal THEN NoneVal
            ELSE IF d[1] = "-" THEN NoneVal
            ELSE DecParse(d)
        Leer(s) == IF s = <<>> THEN NoneVal ELSE Positivo(DecimalDosDecimales(PuntoDecimal(s)))
    IN Leer(ReSub(NotIn(Digits \cup {",", ".", "-"}), <<>>, monto_txt))

\* r"\d{1,3}(?:[.,]\d{3})*[.,]\d{2}"
PatMonto ==
    Cat(<<Rep(Dig, 1, 3), Star(Cat(<<In({".", ","}), Rep(Dig, 3, 3)>>)),
          In({".", ","}), Rep(Dig, 2, 2)>>)

RECURSIVE MontosDeTextos(_, _)
MontosDeTextos(txts, k) ==
    IF k > Len(txts) THEN <<>>
    ELSE LET SiHay(v) == IF v /= NoneVal THEN <<v>> ELSE <<>>
         IN SiHay(MontoDeTexto(txts[k])) \o MontosDeTextos(txts, k + 1)

MontosDeLinea(linea) == MontosDeTextos(FindAll(PatMonto, linea), 1)

UNIDADES ==
    <<<<<<"C", "E", "R", "O">>, 0>>, <<<<"U", "N", "O">>, 1>>, <<<<"D", "O", "S">>, 2>>, <<<<"T", "R", "E", "S">>, 3>>, <<<<"C", "U", "A", "T", "R", "O">>, 4>>,
      <<<<"C", "I", "N", "C", "O">>, 5>>, <<<<"S", "E", "I", "S">>, 6>>, <<<<"S", "I", "E", "T", "E">>, 7>>, <<<<"O", "C", "H", "O">>, 8>>, <<<<"D", "I", "E", "Z">>, 10>>,
      <<<<"O", "N", "C", "E">>, 11>>, <<<<"D", "O", "C", "E">>, 12>>, <<<<"T", "R", "E", "C", "E">>, 13>>, <<<<"C", "A", "T", "O", "R", "C", "E">>, 14>>,
      <<<<"Q", "U", "I", "N", "C", "E">>, 15>>, <<<<"D", "I", "E", "C", "I", "S", "É", "I", "S">>, 16>>, <<<<"D", "I", "E", "C", "I", "S", "I", "E", "T", "E">>, 17>>, <<<<"D", "I", "E", "C", "I", "O", "C", "H", "O">>, 18>>,
      <<<<"D", "I", "E", "C", "I", "N", "U", "E", "V", "E">>, 19>>, <<<<"V", "E", "I", "N", "T", "E">>, 20>>, <<<<"V", "E", "I", "N", "T", "I", "U", "N", "O">>, 21>>, <<<<"V", "E", "I", "N", "T", "I", "D", "O", "S">>, 22>>,
      <<<<"V", "E", "I", "N", "T", "I", "T", "R", "E", "S">>, 23>>, <<<<"V", "E", "I", "N", "T", "I", "C", "U", "A", "T", "R", "O">>, 24>>, <<<<"T", "R", "E", "I", "N", "T", "A">>, 30>>,
      <<<<"C", "U", "A", "R", "E", "N", "T", "A">>, 40>>, <<<<"C", "I", "N", "C", "U", "E", "N", "T", "A">>, 50>>, <<<<"S", "E", "S", "E", "N", "T", "A">>, 60>>, <<<<"S", "E", "T", "E", "N", "T", "A">>, 70>>,
      <<<<"O", "C", "H", "E", "N", "T", "A">>, 80>>, <<<<"N", "O", "V", "E", "N", "T", "A">>, 90>>>>

DECENAS ==
    <<<<<<"C", "I", "E", "N">>, 100>>, <<<<"C", "I", "E", "N", "T", "O">>, 100>>, <<<<"D", "O", "S", "C", "I", "E", "N", "T", "O", "S">>, 200>>, <<<<"T", "R", "E", "S", "C", "I", "E", "N", "T", "O", "S">>, 300>>,
      <<<<"C", "U", "A", "T", "R", "O", "C", "I", "E", "N", "T", "O", "S">>, 400>>, <<<<"Q", "U", "I", "N", "I", "E", "N", "T", "O", "S">>, 500>>, <<<<"S", "E", "I", "S", "C", "I", "E", "N", "T", "O", "S">>, 600>>,
      <<<<"S", "E", "T", "E", "C", "I", "E", "N", "T", "O", "S">>, 700>>, <<<<"O", "C", "H", "O", "C", "I", "E", "N", "T", "O", "S">>, 800>>, <<<<"N", "O", "V", "E", "C", "I", "E", "N", "T", "O", "S">>, 900>>>>

MULTIPLICADORES == <<<<<<"M", "I", "L">>, 1000>>, <<<<"M", "I", "L", "L", "O", "N">>, 1000000>>, <<<<"M", "I", "L", "L", "O", "N", "E", "S">>, 1000000>>>>

\* palabra in tabla, and tabla[palabra]
EnTabla(tabla, palabra) == \E k \in 1..Len(tabla) : tabla[k][1] = palabra
ValorEn(tabla, palabra) == tabla[CHOOSE k \in 1..Len(tabla) : tabla[k][1] = palabra][2]

RECURSIVE SumarPalabras(_, _, _, _)
\* the loop over the words: total + parcial at its end
SumarPalabras(palabras, k, total, parcial) ==
    IF k > Len(palabras) THEN total + parcial
    ELSE IF EnTabla(UNIDADES, palabras[k])
    THEN SumarPalabras(palabras, k + 1, total, parcial + ValorEn(UNIDADES, palabras[k]))
    ELSE IF EnTabla(DECENAS, palabras[k])
    THEN SumarPalabras(palabras, k + 1, total, parcial + ValorEn(DECENAS, palabras[k]))
    ELSE IF EnTabla(MULTIPLICADORES, palabras[k])
    THEN SumarPalabras(palabras, k + 1,
             total + (IF parcial > 1 THEN parcial ELSE 1) * ValorEn(MULTIPLICADORES, palabras[k]),
             0)
    ELSE SumarPalabras(palabras, k + 1, total, parcial)

\* r"(\d{1,2})/100"
PatCentimos == Cat(<<Grp(1, Rep(Dig, 1, 2)), Lit(<<"/", "1", "0", "0">>)>>)

\* the amount written in words, as <<integer digits, fraction digits>>, or NoneVal
letras_a_numero(texto_letras) ==
    LET Valor(total, decimales) ==
            IF total = 0 /\ decimales = 0 THEN NoneVal
            ELSE <<StripZeros(Str(total)), Zfill(Str(decimales), 2)>>
        Con(txt, m) ==
            Valor(SumarPalabras(FindAll(Plus(NotIn(Space)),
                                        IF m /= NoMatch THEN ReSub(PatCentimos, <<>>, txt)
                                        ELSE txt), 1, 0, 0),
                  IF m /= NoMatch THEN DigitsVal(GroupN(txt, m, 1)) ELSE 0)
        Leer(txt) == Con(txt, ReSearchFrom(PatCentimos, txt, 1))
    IN Leer(Replace(ToUpper(texto_letras), <<"-">>, <<" ">>))

\* the amounts the tier takes of one line: 1 keyword lines, 2 amounts in words, 3 any line
MontosDeNivel(linea, nivel) ==
    IF nivel = 1
    THEN (IF ContieneAlguna(linea, claves_total) /\ ~ContieneAlguna(linea, ignorar_monto)
          THEN MontosDeLinea(linea) ELSE <<>>)
    ELSE IF nivel = 2
    THEN (IF Contains(linea, <<"S", "O", "L", "E", "S">>) \/ Contains(linea, <<"/", "1", "0", "0">>)
          THEN LET SiHay(v) == IF v /= NoneVal THEN <<v>> ELSE <<>>
               IN SiHay(letras_a_numero(linea))
          ELSE <<>>)
    ELSE (IF ContieneAlguna(linea, ignorar_monto) THEN <<>> ELSE MontosDeLinea(linea))

RECURSIVE MontosDeLineas(_, _, _)
MontosDeLineas(lineas, k, nivel) ==
    IF k > Len(lineas) THEN <<>>
    ELSE MontosDeNivel(lineas[k], nivel) \o MontosDeLineas(lineas, k + 1, nivel)

\* the spellings of the currency sign brought to "S/"
NormalizarSoles(texto) ==
    Replace(Replace(Replace(Replace(ToUpper(texto), <<"S", " ", ".", " ", "/">>, <<"S", "/">>), <<"S", "-", "/">>, <<"S", "/">>),
                    <<"S", ".">>, <<"S", "/">>), <<"S", " ", "/">>, <<"S", "/">>)

SinMonto == <<"0", ".", "0", "0">>

\* the tiers in the order the code tries them
NivelesTotal == <<1, 2, 3>>

RECURSIVE TotalPorNiveles(_, _, _)
TotalPorNiveles(lineas, niveles, k) ==
    IF k > Len(niveles) THEN SinMonto
    ELSE LET Mayor(montos) == IF montos /= <<>> THEN Format2(DecMax(montos))
                              ELSE TotalPorNiveles(lineas, niveles, k + 1)
         IN Mayor(MontosDeLineas(lineas, 1, niveles[k]))

detectar_total(texto, qr_data) ==
    SiNo(TotalDeQr(qr_data),
         IF ~Truthy(texto) THEN SinMonto
         ELSE TotalPorNiveles(SelectSeqTruthy(SplitLines(NormalizarSoles(texto))), NivelesTotal, 1))

----------------------------------------------------------------------------
(* normalizar_monto: the amount of a text as a string of two decimals *)

LimpiarMontoSinSigno(monto_txt) == ReSub(NotIn(Digits \cup {",", "."}), <<>>, monto_txt)

\* re.sub(r"[^\d,.\-]", "", monto_txt)
LimpiarMonto(monto_txt) == ReSub(NotIn(Digits \cup {",", ".", "-"}), <<>>, monto_txt)

\* the module-level normalizar_monto; its separator rules are, statement by
\* statement, those of the function of the same name inside detectar_total
normalizar_monto(monto_txt) ==
    IF ~Truthy(monto_txt) THEN NoneVal
    ELSE LET Leer(s) == IF s = <<>> THEN NoneVal ELSE DecimalDosDecimales(PuntoDecimal(s))
         IN Leer(LimpiarMonto(monto_txt))

----------------------------------------------------------------------------
(* detectar_tipo_documento *)

OTROS == <<"O", "T", "R", "O", "S">>

\* NFKD and the drop of what is not ASCII: the accented capitals lose the accent,
\* the other characters outside ASCII go
SinTildes(s) ==
    SelectSeq([i \in 1..Len(s) |->
                  CASE s[i] = "Á" -> "A" [] s[i] = "É" -> "E" [] s[i] = "Í" -> "I"
                    [] s[i] = "Ó" -> "O" [] s[i] = "Ú" -> "U" [] s[i] = "Ñ" -> "N"
                    [] s[i] = "Ü" -> "U" [] s[i] = "º" -> "o" [] OTHER -> s[i]],
              LAMBDA c : c \notin {"°", "U+2013", "U+2014"})

Ws == Star(In(Space))

\* patrones, in orden_prioridad
PatronesTipo ==
    <<<<<<"F", "A", "C", "T", "U", "R", "A", " ", "D", "E", " ", "V", "E", "N", "T", "A", " ", "E", "L", "E", "C", "T", "R", "O", "N", "I", "C", "A">>,
        <<Cat(<<Lit(<<"F", "A", "C", "T", "U", "R", "A">>), Ws, Lit(<<"D", "E">>), Ws, Lit(<<"V", "E", "N", "T", "A">>), Ws, Lit(<<"E", "L", "E", "C", "T", "R", "O", "N", "I", "C", "A">>)>>)>>>>,
      <<<<"F", "A", "C", "T", "U", "R", "A", " ", "E", "L", "E", "C", "T", "R", "O", "N", "I", "C", "A">>, <<Cat(<<Lit(<<"F", "A", "C", "T", "U", "R", "A">>), Ws, Lit(<<"E", "L", "E", "C", "T", "R", "O", "N", "I", "C", "A">>)>>)>>>>,
      <<<<"F", "A", "C", "T", "U", "R", "A">>,
        <<Cat(<<WordB, Lit(<<"F", "A", "C", "T", "U", "R", "A">>), WordB>>),
          Cat(<<WordB, Lit(<<"F", "-">>), Rep(Dig, 3, -1)>>)>>>>,
      <<<<"B", "O", "L", "E", "T", "A", " ", "D", "E", " ", "V", "E", "N", "T", "A", " ", "E", "L", "E", "C", "T", "R", "O", "N", "I", "C", "A">>,
        <<Cat(<<Lit(<<"B", "O", "L", "E", "T", "A">>), Ws, Lit(<<"D", "E">>), Ws, Lit(<<"V", "E", "N", "T", "A">>), Ws, Lit(<<"E", "L", "E", "C", "T", "R", "O", "N", "I", "C", "A">>)>>)>>>>,
      <<<<"B", "O", "L", "E", "T", "A", " ", "E", "L", "E", "C", "T", "R", "O", "N", "I", "C", "A">>, <<Cat(<<Lit(<<"B", "O", "L", "E", "T", "A">>), Ws, Lit(<<"E", "L", "E", "C", "T", "R", "O", "N", "I", "C", "A">>)>>)>>>>,
      <<<<"B", "O", "L", "E", "T", "A">>,
        <<Cat(<<WordB, Lit(<<"B", "O", "L", "E", "T", "A">>), WordB>>), Cat(<<WordB, Lit(<<"B", "O", "L">>), WordB>>)>>>>,
      <<<<"H", "O", "N", "O", "R", "A", "R", "I", "O", "S">>,
        <<Cat(<<Lit(<<"R", "E", "C", "I", "B", "O">>), Ws, Lit(<<"P", "O", "R">>), Ws, Lit(<<"H", "O", "N", "O", "R", "A", "R", "I", "O", "S">>)>>),
          Lit(<<"H", "O", "N", "O", "R", "A", "R", "I", "O", "S">>), Lit(<<"R", ".", "H", ".">>)>>>>>>

RECURSIVE TipoDesde(_, _)
TipoDesde(texto_norm, k) ==
    IF k > Len(PatronesTipo) THEN OTROS
    ELSE IF \E j \in 1..Len(PatronesTipo[k][2]) : ReSearch(PatronesTipo[k][2][j], texto_norm)
    THEN PatronesTipo[k][1]
    ELSE TipoDesde(texto_norm, k + 1)

detectar_tipo_documento(texto) ==
    IF ~Truthy(texto) THEN OTROS
    ELSE TipoDesde(SinTildes(ToUpper(ReSub(Rep(In(Space), 2, -1), <<" ">>, Strip(texto)))), 1)

----------------------------------------------------------------------------
(* detectar_razon_social *)

SepRS == Star(In(Space \cup {".", "/", ",", "-"}))

\* reemplazos_regex, in the order of the dict
reemplazos_regex ==
    <<<<Cat(<<In({"5"}), Opt(In({",", "."})), Ws, In({"A"})>>), <<"S", ".", "A", ".">>>>,
      <<Cat(<<WordB, In({"S"}), SepRS, In({"A"}), SepRS, In({"C"}), WordB>>), <<"S", ".", "A", ".", "C">>>>,
      <<Cat(<<WordB, In({"S"}), SepRS, In({"A"}), WordB>>), <<"S", ".", "A", ".">>>>,
      <<Cat(<<WordB, In({"E"}), SepRS, In({"I"}), SepRS, In({"R"}), SepRS, In({"L"}), WordB>>),
        <<"E", ".", "I", ".", "R", ".", "L">>>>>>

RECURSIVE AplicarReemplazos(_, _)
AplicarReemplazos(txt, k) ==
    IF k > Len(reemplazos_regex) THEN txt
    ELSE AplicarReemplazos(ReSub(reemplazos_regex[k][1], reemplazos_regex[k][2], txt), k + 1)

\* r"\b(FACTURA|BOLETA|ELECTRONICA|ELECTRÓNICA|RAZ\.?SOCIAL:?)\b" with re.IGNORECASE
PatRuido ==
    Cat(<<WordB,
          Alt(<<LitI(<<"F", "A", "C", "T", "U", "R", "A">>), LitI(<<"B", "O", "L", "E", "T", "A">>), LitI(<<"E", "L", "E", "C", "T", "R", "O", "N", "I", "C", "A">>), LitI(<<"E", "L", "E", "C", "T", "R", "Ó", "N", "I", "C", "A">>),
                Cat(<<LitI(<<"R", "A", "Z">>), Opt(In({"."})), LitI(<<"S", "O", "C", "I", "A", "L">>), Opt(In({":"}))>>)>>),
          WordB>>)

\* r"^(RUC|R\.U\.C|CLIENTE|...|PROV)" with re.IGNORECASE
patron_exclusion ==
    Alt(<<LitI(<<"R", "U", "C">>), LitI(<<"R", ".", "U", ".", "C">>), LitI(<<"C", "L", "I", "E", "N", "T", "E">>), LitI(<<"D", "I", "R", "E", "C", "C", "I", "O", "N">>),
          LitI(<<"O", "F", "I", "C", "I", "N", "A">>), LitI(<<"C", "A", "L">>), LitI(<<"J", "R">>), LitI(<<"A", "V">>), LitI(<<"P", "S", "J", "E">>),
          LitI(<<"M", "Z", "A">>), LitI(<<"L", "O", "T", "E">>), LitI(<<"A", "S", "C">>), LitI(<<"T", "E", "L", "F">>), LitI(<<"C", "I", "U", "D", "A", "D">>),
          LitI(<<"P", "R", "O", "V">>)>>)

\* r"V\s*&?\s*C\s+CORPORATION(\s+S\.?A\.?C\.?| SOCIEDAD ANONIMA CERRADA)?" with re.IGNORECASE
patron_empresa ==
    Cat(<<LitI(<<"V">>), Ws, Opt(In({"&"})), Ws, LitI(<<"C">>), Plus(In(Space)), LitI(<<"C", "O", "R", "P", "O", "R", "A", "T", "I", "O", "N">>),
          Opt(Alt(<<Cat(<<Plus(In(Space)), LitI(<<"S">>), Opt(In({"."})), LitI(<<"A">>),
                          Opt(In({"."})), LitI(<<"C">>), Opt(In({"."}))>>),
                    LitI(<<" ", "S", "O", "C", "I", "E", "D", "A", "D", " ", "A", "N", "O", "N", "I", "M", "A", " ", "C", "E", "R", "R", "A", "D", "A">>)>>))>>)

SepFecha == In({"/", "-", "."})

\* r"\b(\d{1,2}[/\-\.]\d{1,2}[/\-\.]\d{2,4}|\d{4}[/\-\.]\d{1,2}[/\-\.]\d{1,2})\b"
patron_fecha ==
    Cat(<<WordB,
          Alt(<<Cat(<<Rep(Dig, 1, 2), SepFecha, Rep(Dig, 1, 2), SepFecha, Rep(Dig, 2, 4)>>),
                Cat(<<Rep(Dig, 4, 4), SepFecha, Rep(Dig, 1, 2), SepFecha, Rep(Dig, 1, 2)>>)>>),
          WordB>>)

\* r"(REPRESENTACION IMPRESA|PARA VER EL DOCUMENTO|HTTPS?:|WWW\.)" with re.IGNORECASE
patron_finales_ruidosos ==
    Alt(<<LitI(<<"R", "E", "P", "R", "E", "S", "E", "N", "T", "A", "C", "I", "O", "N", " ", "I", "M", "P", "R", "E", "S", "A">>), LitI(<<"P", "A", "R", "A", " ", "V", "E", "R", " ", "E", "L", " ", "D", "O", "C", "U", "M", "E", "N", "T", "O">>),
          Cat(<<LitI(<<"H", "T", "T", "P">>), Opt(LitI(<<"S">>)), In({":"})>>), LitI(<<"W", "W", "W", ".">>)>>)

\* r"R\.?\s*U\.?\s*C.*"
PatRucResto ==
    Cat(<<In({"R"}), Opt(In({"."})), Ws, In({"U"}), Opt(In({"."})), Ws, In({"C"}), Star(AnyChar)>>)

\* r"\b[FBE]\d{3,}-\d+"
PatSerieDoc == Cat(<<WordB, In({"F", "B", "E"}), Rep(Dig, 3, -1), In({"-"}), Plus(Dig)>>)

\* r"^(ES|LA|EL|LOS|LAS)\s+"
PatArticulo ==
    Cat(<<Bol, Alt(<<Lit(<<"E", "S">>), Lit(<<"L", "A">>), Lit(<<"E", "L">>), Lit(<<"L", "O", "S">>), Lit(<<"L", "A", "S">>)>>),
          Plus(In(Space))>>)

\* re.split(re, l)[0]
AntesDe(re, l) ==
    LET Cortar(m) == IF m = NoMatch THEN l ELSE SubSeq(l, 1, m.start - 1)
    IN Cortar(ReSearchFrom(re, l, 1))

\* s.strip(chars)
StripChars(s, chars) ==
    LET Entre(js) == IF js = {} THEN <<>>
                     ELSE SubSeq(s, Minimo(js), CHOOSE j \in js : \A k \in js : k <= j)
    IN Entre({j \in 1..Len(s) : s[j] \notin chars})

\* the line without what follows a RUC or a document series, without the ruc and
\* without a leading article
LimpiarLinea(l, ruc) ==
    LET SinRuc(b) == IF Truthy(ruc) THEN Strip(Replace(b, ruc, <<>>)) ELSE b
    IN ReSub(PatArticulo, <<>>,
             SinRuc(Strip(AntesDe(PatSerieDoc, Strip(AntesDe(PatRucResto, l))))))

LineaBloqueada(l) ==
    \/ l = <<>>
    \/ ReMatch(patron_exclusion, l)
    \/ ReSearch(patron_empresa, l)
    \/ ReSearch(patron_fecha, l)
    \/ ReSearch(patron_finales_ruidosos, l)

RECURSIVE LineasValidas(_, _, _)
LineasValidas(lineas, k, ruc) ==
    IF k > Len(lineas) THEN <<>>
    ELSE LET SiValida(l) == IF LineaBloqueada(l) THEN <<>> ELSE <<l>>
         IN SiValida(LimpiarLinea(lineas[k], ruc)) \o LineasValidas(lineas, k + 1, ruc)

Pt == Opt(In({"."}))

terminaciones ==
    <<Cat(<<In({"S"}), Pt, In({"A"}), Pt, In({"C"}), Pt, Eol>>),
      Cat(<<In({"S"}), Pt, In({"A"}), Pt, Eol>>),
      Cat(<<In({"E"}), Pt, In({"I"}), Pt, In({"R"}), Pt, In({"L"}), Pt, Eol>>),
      Cat(<<Lit(<<"S", "O", "C", "I", "E", "D", "A", "D", " ", "A", "N", "O", "N", "I", "M", "A", " ", "C", "E", "R", "R", "A", "D", "A">>), Eol>>),
      Cat(<<Lit(<<"S", "O", "C", "I", "E", "D", "A", "D", " ", "A", "N", "O", "N", "I", "M", "A">>), Eol>>),
      Cat(<<Lit(<<"E", "M", "P", "R", "E", "S", "A", " ", "I", "N", "D", "I", "V", "I", "D", "U", "A", "L", " ", "D", "E", " ", "R", "E", "S", "P", "O", "N", "S", "A", "B", "I", "L", "I", "D", "A", "D", " ", "L", "I", "M", "I", "T", "A", "D", "A">>), Eol>>),
      Cat(<<Lit(<<"R", "E", "S", "P", "O", "N", "S", "A", "B", "I", "L", "I", "D", "A", "D", " ", "L", "I", "M", "I", "T", "A", "D", "A">>), Eol>>),
      Cat(<<Lit(<<"U", "N", "I", "V", "E", "R", "S", "I", "D", "A", "D">>), Eol>>), Cat(<<Lit(<<"I", "N", "S", "T", "I", "T", "U", "T", "O">>), Eol>>),
      Cat(<<Lit(<<"C", "O", "L", "E", "G", "I", "O">>), Eol>>), Cat(<<Lit(<<"C", "E", "N", "T", "R", "O">>), Eol>>),
      Cat(<<Lit(<<"A", "C", "A", "D", "E", "M", "I", "A">>), Eol>>)>>

TieneTerminacion(linea) == \E k \in 1..Len(terminaciones) : ReSearch(terminaciones[k], linea)

\* r"S\.A\.C|S\.A\.|E\.I\.R\.L"
PatSiglas == Alt(<<Lit(<<"S", ".", "A", ".", "C">>), Lit(<<"S", ".", "A", ".">>), Lit(<<"E", ".", "I", ".", "R", ".", "L">>)>>)

palabras_empresa ==
    <<<<"C", "O", "R", "P", "O", "R", "A", "T", "I", "O", "N">>, <<"I", "M", "P", "O", "R", "T", "A", "C", "I", "O", "N", "E", "S">>, <<"C", "O", "N", "S", "T", "R", "U", "C", "T", "O", "R", "A">>, <<"C", "O", "N", "S", "U", "L", "T", "I", "N", "G">>, <<"I", "N", "D", "U", "S", "T", "R", "I", "A", "L">>>>

puntuar(linea) ==
    (IF TieneTerminacion(linea) THEN 5 ELSE 0)
    + (IF ReSearch(PatSiglas, linea) THEN 3 ELSE 0)
    + (IF ContieneAlguna(linea, palabras_empresa) THEN 2 ELSE 0)
    + (IF Len(FindAll(Plus(NotIn(Space)), linea)) >= 2 THEN 1 ELSE 0)

ScoreMinimo == 3

\* the first line of the best score, if that score is enough
MejorCandidatoRS(lineas_validas) ==
    LET Elegir(puntos, ks) ==
            IF ks /= {} /\ puntos[Minimo(ks)] >= ScoreMinimo
            THEN lineas_validas[Minimo(ks)] ELSE NoneVal
        Maximos(puntos) ==
            Elegir(puntos, {k \in 1..Len(puntos) : \A j \in 1..Len(puntos) : puntos[j] <= puntos[k]})
    IN Maximos([k \in 1..Len(lineas_validas) |-> puntuar(lineas_validas[k])])

VentanasRS == <<2, 3, 4>>

RECURSIVE Combinada(_, _)
\* the first run of 2, then 3, then 4 lines that ends as a company name does
Combinada(lineas_validas, w) ==
    IF w > Len(VentanasRS) THEN NoneVal
    ELSE LET window == VentanasRS[w]
             Primera(is) ==
                 IF is /= {}
                 THEN Strip(ReSub(Plus(In(Space)), <<" ">>,
                          Join(<<" ">>, SubSeq(lineas_validas, Minimo(is), Minimo(is) + window - 1))))
                 ELSE Combinada(lineas_validas, w + 1)
         IN Primera({i \in 1..(Len(lineas_validas) - window + 1) :
                        TieneTerminacion(Join(<<" ">>, SubSeq(lineas_validas, i, i + window - 1)))})

\* r"[\s,:;\-]*(R\.?\s*U\.?\s*C.*)+$"
PatRestoRuc ==
    Cat(<<Star(In(Space \cup {",", ":", ";", "-"})), Plus(PatRucResto), Eol>>)

LineasRS == 10

\* the name without a trailing RUC and without the ruc, "" where nothing is left
RazonSocialLimpia(razon_social, ruc) ==
    LET Final(sin_ruc) == IF Truthy(sin_ruc) THEN sin_ruc ELSE <<>>
        SinRuc(limpia) == IF Truthy(ruc) THEN Strip(Replace(limpia, ruc, <<>>)) ELSE limpia
    IN IF Truthy(razon_social)
       THEN Final(SinRuc(Strip(ReSub(PatRestoRuc, <<>>, razon_social))))
       ELSE <<>>

\* the best candidate, or a run of lines where no line scores enough
RazonSocialDeValidas(lineas_validas, ruc) ==
    RazonSocialLimpia(Or(MejorCandidatoRS(lineas_validas), Combinada(lineas_validas, 1)), ruc)

\* the first lines of the text that are not blank, their ends stripped
PrimerasLineas(no_vacias) ==
    Prefijo([k \in 1..Len(no_vacias) |-> StripChars(no_vacias[k], {" ", ",", ".", "-"})],
            LineasRS)

\* fila_db: the razon_social of the row of the ruc in boleta_api_razonsocial, NoneVal
\* where there is no row or the query raises
detectar_razon_social(texto, ruc, fila_db) ==
    IF ~Truthy(texto) THEN <<>>
    ELSE IF Truthy(ruc) /\ fila_db /= NoneVal THEN Strip(fila_db)
    ELSE RazonSocialDeValidas(
             LineasValidas(
                 PrimerasLineas(
                     SelectSeq(SplitLines(
                                   ReSub(PatRuido, <<>>,
                                       AplicarReemplazos(
                                           ToUpper(ReSub(Rep(In(Space), 2, -1), <<" ">>,
                                                         Strip(texto))), 1))),
                               LAMBDA l : Strip(l) /= <<>>)),
                 1, ruc),
             ruc)

----------------------------------------------------------------------------
(* procesar_datos_ocr *)

QrDatosVacios ==
    [ruc_emisor |-> NoneVal, numero_documento |-> NoneVal, fecha_emision |-> NoneVal,
     total |-> NoneVal]

MinPartesCabecera == 7

\* qr_datos of the segments of the QR text
QrDatosDePartes(partes) ==
    LET Cabecera(con_numero) ==
            IF Len(partes) >= MinPartesCabecera
            THEN [con_numero EXCEPT !.ruc_emisor = Or(Strip(partes[1]), NoneVal),
                                    !.total = Or(Strip(partes[6]), NoneVal),
                                    !.fecha_emision = Or(Strip(partes[7]), NoneVal)]
            ELSE con_numero
    IN Cabecera(IF Len(partes) >= MinPartesQr
                THEN [QrDatosVacios EXCEPT !.numero_documento =
                         NumeroDocumentoQr(Strip(partes[3]), Strip(partes[4]))]
                ELSE QrDatosVacios)

\* qr_datos as the image branch fills it; contenido = NoneVal when pyzbar finds no code
QrDatosDeImagen(contenido) ==
    IF contenido = NoneVal THEN QrDatosVacios
    ELSE QrDatosDePartes(Split(Strip(contenido), "|"))

RAZON_SOCIAL_DESCONOCIDA == <<"R", "A", "Z", "Ó", "N", " ", "S", "O", "C", "I", "A", "L", " ", "D", "E", "S", "C", "O", "N", "O", "C", "I", "D", "A">>

\* the merge of the detectors with qr_datos, field by field
RucFusionado(texto, qr_datos) == Or(detectar_ruc(texto, NoneVal), qr_datos.ruc_emisor)
NumeroFusionado(texto, qr_datos) ==
    Or(qr_datos.numero_documento, detectar_numero_documento(texto, NoneVal))
FechaFusionada(texto, qr_datos, hoy) == Or(detectar_fecha(texto, NoneVal, hoy), qr_datos.fecha_emision)
TotalFusionado(texto, qr_datos) == Or(detectar_total(texto, NoneVal), qr_datos.total)

\* datos of an empty text
DatosSinTexto(qr_datos) ==
    [ruc |-> Or(qr_datos.ruc_emisor, NoneVal),
     razon_social |-> RAZON_SOCIAL_DESCONOCIDA,
     numero_documento |-> Or(qr_datos.numero_documento, ND),
     fecha |-> Or(qr_datos.fecha_emision, NoneVal),
     total |-> Or(qr_datos.total, SinMonto),
     tipo_documento |-> OTROS]

\* datos of a text; ruc is the merged RUC, which the search of the name is given
DatosConTexto(texto, qr_datos, ruc, hoy, fila_db) ==
    [ruc |-> Or(ruc, NoneVal),
     razon_social |-> Or(detectar_razon_social(texto, ruc, fila_db), NoneVal),
     numero_documento |-> Or(NumeroFusionado(texto, qr_datos), ND),
     fecha |-> Or(FechaFusionada(texto, qr_datos, hoy), NoneVal),
     total |-> Or(TotalFusionado(texto, qr_datos), SinMonto),
     tipo_documento |-> ToUpper(detectar_tipo_documento(texto))]

DatosDe(texto, qr_datos, hoy, fila_db) ==
    IF ~Truthy(texto) THEN DatosSinTexto(qr_datos)
    ELSE DatosConTexto(texto, qr_datos, RucFusionado(texto, qr_datos), hoy, fila_db)

\* entrada: [tipo |-> "texto", texto |-> the str given] or
\*          [tipo |-> "imagen", texto |-> what tesseract reads, qr |-> what pyzbar decodes];
\* hoy: datetime.now(); fila_db: the row of the ruc in boleta_api_razonsocial
procesar_datos_ocr(entrada, hoy, fila_db) ==
    DatosDe(entrada.texto,
            IF entrada.tipo = "imagen" THEN QrDatosDeImagen(entrada.qr) ELSE QrDatosVacios,
            hoy, fila_db)

----------------------------------------------------------------------------
(* procesar_documento_celery: one page of a PDF, or an image file *)

ClavesTexto == <<<<"R", "U", "C">>, <<"T", "O", "T", "A", "L">>, <<"F", "E", "C", "H", "A">>>>

\* s.capitalize()
Capitalize(s) ==
    [i \in 1..Len(s) |-> IF i = 1 THEN UpperOf(s[i]) ELSE LowerOf(s[i])]

\* the parameters of the task
TipoDocumentoParam == <<"B", "o", "l", "e", "t", "a">>
ConceptoParam == <<"S", "o", "l", "i", "c", "i", "t", "u", "d", " ", "d", "e", " ", "g", "a", "s", "t", "o">>
NombreArchivoParam == <<"d", "o", "c", "u", "m", "e", "n", "t", "o", ".", "p", "d", "f">>

\* datos.update(datos_qr) without the filter on empty values
MergeQrSinFiltro(datos, datos_qr) == datos_qr @@ datos

\* if any(datos_qr.values()): datos.update({k: v for k, v in datos_qr.items() if v})
MergeQr(datos, datos_qr) ==
    [k \in {c \in DOMAIN datos_qr : Truthy(datos_qr[c])} |-> datos_qr[k]] @@ datos

\* the last two statements on datos
Finalizar(datos) ==
    [k \in {"concepto", "nombre_archivo"} |->
        IF k = "concepto" THEN ConceptoParam ELSE NombreArchivoParam]
    @@ [datos EXCEPT !.tipo_documento = Capitalize(Or(@, TipoDocumentoParam))]

\* pagina: [es_pdf, nativo |-> page.extract_text(), ocr |-> what tesseract reads on the
\* image, qr |-> what the QR decoders read on the image]. The image is rendered for an
\* image file, and for a page whose text holds none of RUC, TOTAL, FECHA.
ConImagen(pagina) ==
    \/ ~pagina.es_pdf
    \/ ~ContieneAlguna(ToUpper(Strip(Or(pagina.nativo, <<>>))), ClavesTexto)

TextoCrudo(pagina) ==
    IF ConImagen(pagina) THEN pagina.ocr ELSE Strip(Or(pagina.nativo, <<>>))

\* procesar_pagina, and the branch of an image file, from the call of procesar_datos_ocr
\* on: datos is what that call returned, hay_imagen whether an image was rendered,
\* datos_qr what extraer_datos_qr returned of it
procesar_pagina(texto_crudo, datos, hay_imagen, datos_qr) ==
    [pagina |-> 1,
     texto_extraido |-> texto_crudo,
     datos_detectados |-> Finalizar(IF hay_imagen THEN MergeQr(datos, datos_qr) ELSE datos)]

----------------------------------------------------------------------------
(* OperacionSecuencia.generar_numero *)

NCallers == 3
Callers == 1..NCallers

Tipos == {<<"S", "O", "L">>, <<"A", "R", "Q">>}
Hoy == <<"2", "0", "2", "6", "1", "1", "0", "6">>
Claves == Tipos \X {Hoy}

\* f"{tipo.upper()}-{fecha_actual.strftime('%Y%m%d')}-{str(secuencia).zfill(4)}"
FormatoNumero(clave, secuencia) ==
    clave[1] \o <<"-">> \o clave[2] \o <<"-">> \o Zfill(Str(secuencia), 4)

InitSeq ==
    /\ filas \in [Claves -> {[existe |-> FALSE, secuencia |-> 0],
                             [existe |-> TRUE, secuencia |-> 1]}]
    /\ inicialS = [k \in Claves |-> filas[k].secuencia]
    /\ candado = [k \in Claves |-> 0]
    /\ pcS = [p \in Callers |-> "idle"]
    /\ claveS \in [Callers -> Claves]
    /\ objS = [p \in Callers |-> 0]
    /\ numS = [p \in Callers |-> NoneVal]
    /\ viaS = [p \in Callers |-> "none"]
    /\ hechasS = [k \in Claves |-> 0]
    /\ ReposoDoc
    /\ ReposoQr
    /\ ReposoOcr
    /\ ReposoTask
    /\ ReposoFn
    /\ ReposoPag
    /\ ReposoRuta
    /\ ReposoPasos
    /\ ReposoImg
    /\ ReposoNum

FilaBloqueableSinCandado(p) == filas[claveS[p]].existe

\* select_for_update().get(tipo=, fecha=) finds a committed row and can lock it:
\* it waits while another transaction holds the row.
FilaBloqueable(p) == filas[claveS[p]].existe /\ candado[claveS[p]] = 0

\* with transaction.atomic(): get_or_create -> self.get(**kwargs);
\* DoesNotExist when no committed row is visible
Get(p) ==
    /\ pcS[p] = "idle"
    /\ \/ /\ FilaBloqueable(p)
          /\ candado' = [candado EXCEPT ![claveS[p]] = p]
          /\ objS' = [objS EXCEPT ![p] = filas[claveS[p]].secuencia]
          /\ viaS' = [viaS EXCEPT ![p] = "get"]
          /\ pcS' = [pcS EXCEPT ![p] = "inc"]
       \/ /\ ~filas[claveS[p]].existe
          /\ pcS' = [pcS EXCEPT ![p] = "create"]
          /\ UNCHANGED <<candado, objS, viaS>>
    /\ UNCHANGED <<filas, claveS, numS, hechasS, inicialS>>
    /\ UNCHANGED <<varsDoc, varsQr, varsOcr, varsTask, varsFn, varsPag, varsRuta, varsPasos, varsImg, varsNum>>

\* get_or_create -> create(tipo, fecha, secuencia=0) under unique_together:
\* the INSERT waits for an uncommitted row with the same key, and raises
\* IntegrityError when a committed one exists.
Create(p) ==
    /\ pcS[p] = "create"
    /\ \/ /\ ~filas[claveS[p]].existe
          /\ candado[claveS[p]] = 0
          /\ candado' = [candado EXCEPT ![claveS[p]] = p]
          /\ objS' = [objS EXCEPT ![p] = 0]
          /\ viaS' = [viaS EXCEPT ![p] = "create"]
          /\ pcS' = [pcS EXCEPT ![p] = "inc"]
       \/ /\ filas[claveS[p]].existe
          /\ pcS' = [pcS EXCEPT ![p] = "reget"]
          /\ UNCHANGED <<candado, objS, viaS>>
    /\ UNCHANGED <<filas, claveS, numS, hechasS, inicialS>>
    /\ UNCHANGED <<varsDoc, varsQr, varsOcr, varsTask, varsFn, varsPag, varsRuta, varsPasos, varsImg, varsNum>>

\* get_or_create -> except IntegrityError: return self.get(**kwargs), False
Reget(p) ==
    /\ pcS[p] = "reget"
    /\ FilaBloqueable(p)
    /\ candado' = [candado EXCEPT ![claveS[p]] = p]
    /\ objS' = [objS EXCEPT ![p] = filas[claveS[p]].secuencia]
    /\ viaS' = [viaS EXCEPT ![p] = "reget"]
    /\ pcS' = [pcS EXCEPT ![p] = "inc"]
    /\ UNCHANGED <<filas, claveS, numS, hechasS, inicialS>>
    /\ UNCHANGED <<varsDoc, varsQr, varsOcr, varsTask, varsFn, varsPag, varsRuta, varsPasos, varsImg, varsNum>>

\* secuencia_obj.secuencia += 1; secuencia_obj.save()
Incrementar(p) ==
    /\ pcS[p] = "inc"
    /\ objS' = [objS EXCEPT ![p] = objS[p] + 1]
    /\ pcS' = [pcS EXCEPT ![p] = "commit"]
    /\ UNCHANGED <<filas, candado, claveS, numS, hechasS, inicialS, viaS>>
    /\ UNCHANGED <<varsDoc, varsQr, varsOcr, varsTask, varsFn, varsPag, varsRuta, varsPasos, varsImg, varsNum>>

\* leaving the atomic block commits and releases the lock; then the return
Commit(p) ==
    /\ pcS[p] = "commit"
    /\ filas' = [filas EXCEPT ![claveS[p]] = [existe |-> TRUE, secuencia |-> objS[p]]]
    /\ candado' = [candado EXCEPT ![claveS[p]] = 0]
    /\ numS' = [numS EXCEPT ![p] = FormatoNumero(claveS[p], objS[p])]
    /\ hechasS' = [hechasS EXCEPT ![claveS[p]] = @ + 1]
    /\ pcS' = [pcS EXCEPT ![p] = "done"]
    /\ UNCHANGED <<claveS, objS, inicialS, viaS>>
    /\ UNCHANGED <<varsDoc, varsQr, varsOcr, varsTask, varsFn, varsPag, varsRuta, varsPasos, varsImg, varsNum>>

\* an exception inside the atomic block rolls the transaction back
Rollback(p) ==
    /\ pcS[p] \in {"inc", "commit"}
    /\ candado' = [candado EXCEPT ![claveS[p]] = 0]
    /\ pcS' = [pcS EXCEPT ![p] = "failed"]
    /\ UNCHANGED <<filas, claveS, objS, numS, hechasS, inicialS, viaS>>
    /\ UNCHANGED <<varsDoc, varsQr, varsOcr, varsTask, varsFn, varsPag, varsRuta, varsPasos, varsImg, varsNum>>

NextSeq ==
    \E p \in Callers :
        \/ Get(p)
        \/ Create(p)
        \/ Reget(p)
        \/ Incrementar(p)
        \/ Commit(p)
        \/ Rollback(p)

SpecSeq == InitSeq /\ [][NextSeq]_vars

C1_Inv ==
    /\ \A p, q \in Callers :
          (p /= q /\ numS[p] /= NoneVal /\ numS[q] /= NoneVal /\ claveS[p] = claveS[q])
              => numS[p] /= numS[q]
    /\ \A k \in Claves : filas[k].secuencia = inicialS[k] + hechasS[k]

\* C1: for a fixed (tipo, fecha), whatever the interleaving of the callers (row
\* present or not at the start), the identifiers returned are pairwise
\* distinct, the stored secuencia grows by exactly 1 per completed call, and
\* it never decreases.
C1_SecuenciaUnica ==
    /\ []C1_Inv
    /\ [][\A k \in Claves :
            /\ filas'[k].secuencia >= filas[k].secuencia
            /\ filas'[k].secuencia - filas[k].secuencia = hechasS'[k] - hechasS[k]]_vars

\* All callers asked for one key whose row did not exist, all have returned,
\* one created the row and another lost the race to create it.
C1_Witness ==
    \E k \in Claves :
        /\ inicialS[k] = 0
        /\ \A p \in Callers : claveS[p] = k /\ pcS[p] = "done"
        /\ \E p, q \in Callers : viaS[p] = "create" /\ viaS[q] = "reget"
        /\ hechasS[k] = NCallers

----------------------------------------------------------------------------
(* generar_numero_operacion and guardar_documento *)

NRequests == 2
Requests == 1..NRequests

PrefijoDoc == <<"D", "O", "C">>
Ayer == <<"2", "0", "2", "6", "1", "1", "0", "5">>

\* f"{prefix}-{fecha_str}-{nuevo_num:04d}"
NumeroOperacion(prefix, fecha_str, nuevo_num) ==
    prefix \o <<"-">> \o fecha_str \o <<"-">> \o Zfill(Str(nuevo_num), 4)

\* .filter(numero_operacion__startswith=f"{prefix}-{fecha_str}")
FiltroPrefijo(docs, prefix, fecha_str) ==
    {d \in docs : StartsWith(d, prefix \o <<"-">> \o fecha_str)}

\* .order_by('-numero_operacion').first(), NoneVal when the queryset is empty
Ultimo(docs) ==
    IF docs = {} THEN NoneVal
    ELSE CHOOSE d \in docs : \A e \in docs : e = d \/ LexLess(e, d)

\* int(ultimo.numero_operacion.split("-")[-1]), 0 on ValueError
UltimoNum(ultimo) ==
    IF ultimo = NoneVal THEN 0
    ELSE LET partes == Split(ultimo, "-")
             cola == partes[Len(partes)]
         IN IF IsDigits(cola) THEN DigitsVal(cola) ELSE 0

generar_numero_operacion(docs, prefix, fecha_str) ==
    NumeroOperacion(prefix, fecha_str,
                    UltimoNum(Ultimo(FiltroPrefijo(docs, prefix, fecha_str))) + 1)

DocumentosIniciales ==
    {{}, {NumeroOperacion(PrefijoDoc, Hoy, 1)},
     {NumeroOperacion(PrefijoDoc, Ayer, 3), NumeroOperacion(PrefijoDoc, Hoy, 1),
      NumeroOperacion(PrefijoDoc, Hoy, 2)}}

InitDoc ==
    /\ documentos \in DocumentosIniciales
    /\ dbUp = TRUE
    /\ pcD = [r \in Requests |-> "start"]
    /\ numD = [r \in Requests |-> NoneVal]
    /\ statusD = [r \in Requests |-> [codigo |-> 0, causa |-> "none"]]
    /\ ReposoSeq
    /\ ReposoQr
    /\ ReposoOcr
    /\ ReposoTask
    /\ ReposoFn
    /\ ReposoPag
    /\ ReposoRuta
    /\ ReposoPasos
    /\ ReposoImg
    /\ ReposoNum

\* return Response(..., status=codigo); causa names the step that ended the request
Responder(r, codigo, causa) ==
    /\ statusD' = [statusD EXCEPT ![r] = [codigo |-> codigo, causa |-> causa]]
    /\ pcD' = [pcD EXCEPT ![r] = "done"]

\* solicitud_id / get_object_or_404(Solicitud) / request.FILES.get("archivo")
ValidarEntrada(r) ==
    /\ pcD[r] = "start"
    /\ \E caso \in {"ok", "sin_solicitud", "no_existe", "sin_archivo"} :
          CASE caso = "sin_solicitud" -> Responder(r, 400, "entrada")
            [] ~dbUp -> Responder(r, 500, "db")
            [] caso = "no_existe" -> Responder(r, 500, "entrada")
            [] caso = "sin_archivo" -> Responder(r, 400, "entrada")
            [] OTHER -> pcD' = [pcD EXCEPT ![r] = "ocr"] /\ UNCHANGED statusD
    /\ UNCHANGED <<documentos, dbUp, numD>>
    /\ UNCHANGED <<varsSeq, varsQr, varsOcr, varsTask, varsFn, varsPag, varsRuta, varsPasos, varsImg, varsNum>>

\* Image.open, image_to_string, procesar_datos_ocr, defaults, Decimal(total)
ProcesarArchivo(r) ==
    /\ pcD[r] = "ocr"
    /\ \/ pcD' = [pcD EXCEPT ![r] = "numerar"] /\ UNCHANGED statusD
       \/ Responder(r, 500, "ocr")
    /\ UNCHANGED <<documentos, dbUp, numD>>
    /\ UNCHANGED <<varsSeq, varsQr, varsOcr, varsTask, varsFn, varsPag, varsRuta, varsPasos, varsImg, varsNum>>

\* datos_extraidos["numero_operacion"] = generar_numero_operacion("DOC")
GenerarNumero(r) ==
    /\ pcD[r] = "numerar"
    /\ IF dbUp
       THEN /\ numD' = [numD EXCEPT ![r] = generar_numero_operacion(documentos, PrefijoDoc, Hoy)]
            /\ pcD' = [pcD EXCEPT ![r] = "is_valid"]
            /\ UNCHANGED statusD
       ELSE /\ Responder(r, 500, "numerar")
            /\ UNCHANGED numD
    /\ UNCHANGED <<documentos, dbUp>>
    /\ UNCHANGED <<varsSeq, varsQr, varsOcr, varsTask, varsFn, varsPag, varsRuta, varsPasos, varsImg, varsNum>>

\* serializer.is_valid(): numero_operacion is unique=True, validated against the table
SerializerIsValid(r) ==
    /\ pcD[r] = "is_valid"
    /\ CASE ~dbUp -> Responder(r, 500, "db")
         [] numD[r] \in documentos -> Responder(r, 400, "duplicado")
         [] OTHER -> pcD' = [pcD EXCEPT ![r] = "save"] /\ UNCHANGED statusD
    /\ UNCHANGED <<documentos, dbUp, numD>>
    /\ UNCHANGED <<varsSeq, varsQr, varsOcr, varsTask, varsFn, varsPag, varsRuta, varsPasos, varsImg, varsNum>>

\* documento = serializer.save(); IntegrityError on the unique column
SerializerSave(r) ==
    /\ pcD[r] = "save"
    /\ CASE ~dbUp -> Responder(r, 500, "db") /\ UNCHANGED documentos
         [] numD[r] \in documentos -> Responder(r, 500, "duplicado") /\ UNCHANGED documentos
         [] OTHER -> /\ documentos' = documentos \cup {numD[r]}
                     /\ Responder(r, 201, "guardado")
    /\ UNCHANGED <<dbUp, numD>>
    /\ UNCHANGED <<varsSeq, varsQr, varsOcr, varsTask, varsFn, varsPag, varsRuta, varsPasos, varsImg, varsNum>>

\* the database server becomes unreachable, or reachable again
DbCambia ==
    /\ dbUp' = ~dbUp
    /\ UNCHANGED <<documentos, pcD, numD, statusD>>
    /\ UNCHANGED <<varsSeq, varsQr, varsOcr, varsTask, varsFn, varsPag, varsRuta, varsPasos, varsImg, varsNum>>

NextDoc ==
    \/ \E r \in Requests :
          \/ ValidarEntrada(r)
          \/ ProcesarArchivo(r)
          \/ GenerarNumero(r)
          \/ SerializerIsValid(r)
          \/ SerializerSave(r)
    \/ DbCambia

SpecDoc == InitDoc /\ [][NextDoc]_vars

\* C2: no two concurrent callers of generar_numero_operacion for the same
\* prefix and day hold the same identifier, whatever the interleaving of the
\* read of the latest stored number and the later save.
C2_SinDuplicados ==
    \A r, q \in Requests :
        (r /= q /\ pcD[r] \in {"is_valid", "save"} /\ pcD[q] \in {"is_valid", "save"})
            => numD[r] /= numD[q]

\* C3: numbering never fails document processing: no request ends in an error
\* response because the counter store was unreachable in the generator or
\* because its number collided with another caller's.
C3_NumeracionNoFalla ==
    \A r \in Requests :
        pcD[r] = "done" => statusD[r].causa \notin {"numerar", "duplicado"}

----------------------------------------------------------------------------
(* the QR scan on its own *)

MaxSegmentos == 7

\* what the segments of a payload may hold, by position
SegmentosQr ==
    <<{<<"2", "0", "1", "0", "0", "0", "4", "1", "9", "5", "3">>, <<>>},
      {<<"0", "1">>, <<"9", "9">>},
      {<<"F", "0", "0", "1">>, <<>>},
      {<<"1", "2", "3">>, <<"0", "0", "0", "0", "1", "2", "3", "4">>},
      {<<"0">>, <<"6", "8", ".", "6", "4">>},
      {<<"4", "5", "0", ".", "0", "0">>, <<"1", ",", "2", "5", "0", ".", "5">>,
       <<"1", "2", "3", "4", "5", "6", ".", "7", "8">>},
      {<<"1", "5", "/", "0", "3", "/", "2", "0", "2", "4">>,
       <<"2", "0", "2", "4", "-", "0", "3", "-", "1", "5">>,
       <<" ", "1", "5", "-", "0", "3", "-", "2", "0", "2", "4">>,
       <<"3", "/", "5", "/", "2", "4">>},
      {<<"6">>},
      {<<"2", "0", "5", "0", "8", "5", "5", "8", "9", "9", "7">>}>>

RECURSIVE PartesQr(_)
\* the lists of n segments
PartesQr(n) ==
    IF n = 0 THEN {<<>>}
    ELSE {Append(ps, x) : ps \in PartesQr(n - 1), x \in SegmentosQr[n]}

\* the texts a QR code may decode to
ContenidosQr ==
    {Join(<<"|">>, ps) : ps \in UNION {PartesQr(n) : n \in 0..MaxSegmentos}}

InitQr ==
    /\ contenidoQ \in ContenidosQr \cup {NoneVal}
    /\ datosQ = DatosQrVacios
    /\ pcQ = "scan"
    /\ ReposoSeq
    /\ ReposoDoc
    /\ ReposoOcr
    /\ ReposoTask
    /\ ReposoFn
    /\ ReposoPag
    /\ ReposoRuta
    /\ ReposoPasos
    /\ ReposoImg
    /\ ReposoNum

\* datos_qr = extraer_datos_qr(imagen)
EscanearQr ==
    /\ pcQ = "scan"
    /\ datosQ' = extraer_datos_qr(contenidoQ)
    /\ pcQ' = "done"
    /\ UNCHANGED contenidoQ
    /\ UNCHANGED <<varsSeq, varsDoc, varsOcr, varsTask, varsFn, varsPag, varsRuta, varsPasos, varsImg, varsNum>>

NextQr == EscanearQr

SpecQr == InitQr /\ [][NextQr]_vars

\* the stripped segments of the decoded text
SegQ(i) == Strip(Split(Strip(contenidoQ), "|")[i + 1])
NSegQ == IF contenidoQ = NoneVal THEN 0 ELSE Len(Split(Strip(contenidoQ), "|"))

Ceros(n) == [i \in 1..n |-> "0"]

\* dddd-dd-dd
EsFechaIso(f) ==
    /\ Len(f) = 10
    /\ f[5] = "-" /\ f[8] = "-"
    /\ \A i \in {1, 2, 3, 4, 6, 7, 9, 10} : f[i] \in Digits

\* digits, a point, two digits
EsDosDecimales(t) ==
    /\ Len(t) >= 4
    /\ t[Len(t) - 2] = "."
    /\ \A i \in (1..Len(t)) \ {Len(t) - 2} : t[i] \in Digits

EscenarioC ==
    <<"2", "0", "1", "0", "0", "0", "4", "1", "9", "5", "3", "|", "0", "1", "|",
      "F", "0", "0", "1", "|", "1", "2", "3", "|", "0", "|", "4", "5", "0", ".", "0", "0", "|",
      "1", "5", "/", "0", "3", "/", "2", "0", "2", "4">>

C9_Comun ==
    /\ datosQ.ruc_emisor = (IF SegQ(0) = <<>> THEN NoneVal ELSE SegQ(0))
    /\ SegQ(1) = <<"0", "1">> =>
          datosQ.tipo_documento = <<"F", "A", "C", "T", "U", "R", "A", " ",
                                    "E", "L", "E", "C", "T", "R", "Ó", "N", "I", "C", "A">>
    /\ SegQ(1) = <<"9", "9">> => datosQ.tipo_documento = <<"O", "T", "R", "O", "S">>
    /\ datosQ.fecha_emision /= NoneVal => EsFechaIso(datosQ.fecha_emision)
    /\ (NSegQ >= 7 /\ Len(SegQ(6)) = 10) =>
          datosQ.fecha_emision = <<"2", "0", "2", "4", "-", "0", "3", "-", "1", "5">>
    /\ datosQ.total /= NoneVal => EsDosDecimales(datosQ.total)
    /\ (NSegQ >= 6 /\ SegQ(5) = <<"4", "5", "0", ".", "0", "0">>) =>
          datosQ.total = <<"4", "5", "0", ".", "0", "0">>
    /\ contenidoQ = EscenarioC =>
          /\ datosQ.numero_documento =
                <<"F", "0", "0", "1", "-", "0", "0", "0", "0", "0", "1", "2", "3">>
          /\ datosQ.total = <<"4", "5", "0", ".", "0", "0">>
          /\ datosQ.fecha_emision = <<"2", "0", "2", "4", "-", "0", "3", "-", "1", "5">>

\* segment 2 + "-" + segment 3 left-padded with zeros to 8 digits
NumeroEsperadoQ ==
    SegQ(2) \o <<"-">> \o Ceros(IF Len(SegQ(3)) < 8 THEN 8 - Len(SegQ(3)) ELSE 0) \o SegQ(3)

\* C9 (as stated): for every payload of at least 4 segments the tax id is
\* segment 0, the type is read from segment 1, the document number is
\* segment 2 + "-" + segment 3 zero-padded to 8 digits, the date comes back as
\* YYYY-MM-DD and the total with two decimals; scenario C gives
\* F001-00000123, 450.00 and 2024-03-15.
C9_Original ==
    (pcQ = "done" /\ NSegQ >= 4) =>
        /\ C9_Comun
        /\ datosQ.numero_documento = NumeroEsperadoQ

\* C9 (amended): the same, the document number being segment 2 + "-" +
\* segment 3 zero-padded to 8 digits when segment 2 is not empty, and null
\* when segment 2 is empty.
C9_PosicionesQr ==
    (pcQ = "done" /\ NSegQ >= 4) =>
        /\ C9_Comun
        /\ datosQ.numero_documento = (IF SegQ(2) /= <<>> THEN NumeroEsperadoQ ELSE NoneVal)

\* scenario C has been decoded
C9_Witness ==
    /\ pcQ = "done"
    /\ contenidoQ = EscenarioC
    /\ datosQ.numero_documento /= NoneVal

----------------------------------------------------------------------------
(* procesar_datos_ocr called on a text or on an image *)

\* the lines of scenario A
LineasEscenarioA ==
    {<<"R", "U", "C", ":", " ", "2", "0", "1", "2", "3", "4", "5", "6", "7", "8", "9">>,
     <<"T", "O", "T", "A", "L", " ", "A", " ", "P", "A", "G", "A", "R", ":", " ", "1", ",", "2", "5", "0", ".", "0", "0">>,
     <<"F", "E", "C", "H", "A", " ", "E", "M", "I", "S", "I", "O", "N", " ", "1", "5", "/", "0", "3", "/", "2", "0", "2", "4">>,
     <<"F", "0", "0", "1", "-", "0", "0", "0", "0", "1", "2", "3", "4">>}

\* a line no detector reads anything in
LineaSinDatos == <<"H", "O", "L", "A", " ", "M", "U", "N", "D", "O">>

LineasOcr == LineasEscenarioA \cup {LineaSinDatos}

\* the lines tesseract reads on an image: one with a tax id, one without data
LineasImagen ==
    {<<"R", "U", "C", ":", " ", "2", "0", "1", "2", "3", "4", "5", "6", "7", "8", "9">>,
     LineaSinDatos}

MaxLineas == 4
MaxLineasImagen == 1

RECURSIVE Ordenes(_, _)
\* the lists of at most n different elements of S
Ordenes(S, n) ==
    IF n = 0 THEN {<<>>}
    ELSE LET prev == Ordenes(S, n - 1)
         IN prev \cup {Append(pa[1], pa[2]) :
                          pa \in {pb \in prev \X S : pb[2] \notin SeqToSet(pb[1])}}

\* the texts of at most n of the lines
TextosDe(lineas, n) == {Join(<<"\n">>, ls) : ls \in Ordenes(lineas, n)}

\* the segments of scenario C and two after them
SegmentosC ==
    <<<<"2", "0", "1", "0", "0", "0", "4", "1", "9", "5", "3">>, <<"0", "1">>, <<"F", "0", "0", "1">>, <<"1", "2", "3">>, <<"0">>, <<"4", "5", "0", ".", "0", "0">>, <<"1", "5", "/", "0", "3", "/", "2", "0", "2", "4">>, <<"6">>,
      <<"2", "0", "5", "0", "8", "5", "5", "8", "9", "9", "7">>>>

\* what the QR code of an image may decode to: nothing, or the first n segments
QrDeImagenes ==
    {NoneVal} \cup {Join(<<"|">>, SubSeq(SegmentosC, 1, n)) : n \in 0..MaxSegmentos}

\* 2026-11-06 and 2030-01-01, after midnight
Relojes == {[dia |-> 739926, resto |-> 1], [dia |-> 741078, resto |-> 1]}

FilasDb == {NoneVal, <<" ", "C", "O", "M", "E", "R", "C", "I", "A", "L", " ", "A", "N", "D", "I", "N", "A", " ", "S", ".", "A", ".", "C", ".", " ">>}

InitOcr ==
    /\ entradaO = NoneVal
    /\ relojO = NoneVal
    /\ filaO = NoneVal
    /\ datosO = NoneVal
    /\ pcO = "idle"
    /\ ReposoSeq
    /\ ReposoDoc
    /\ ReposoQr
    /\ ReposoTask
    /\ ReposoFn
    /\ ReposoPag
    /\ ReposoRuta
    /\ ReposoPasos
    /\ ReposoImg
    /\ ReposoNum

LlamarOcr(entrada, hoy, fila_db) ==
    /\ pcO = "idle"
    /\ entradaO' = entrada
    /\ relojO' = hoy
    /\ filaO' = fila_db
    /\ datosO' = procesar_datos_ocr(entrada, hoy, fila_db)
    /\ pcO' = "done"
    /\ UNCHANGED <<varsSeq, varsDoc, varsQr, varsTask, varsFn, varsPag, varsRuta, varsPasos, varsImg, varsNum>>

\* procesar_datos_ocr(texto), the table holding no row of the tax id
ProcesarTexto ==
    \E texto \in TextosDe(LineasOcr, MaxLineas), hoy \in Relojes :
        LlamarOcr([tipo |-> "texto", texto |-> texto], hoy, NoneVal)

\* procesar_datos_ocr(imagen)
ProcesarImagen ==
    \E texto \in TextosDe(LineasImagen, MaxLineasImagen), qr \in QrDeImagenes, hoy \in Relojes,
       fila_db \in FilasDb :
        LlamarOcr([tipo |-> "imagen", texto |-> texto, qr |-> qr], hoy, fila_db)

NextOcr == ProcesarTexto \/ ProcesarImagen

SpecOcr == InitOcr /\ [][NextOcr]_vars

C7_DefectosIguales ==
    (pcO = "done" /\ entradaO.tipo = "texto") =>
        LET Defectos(texto) ==
                /\ ~Truthy(detectar_ruc(texto, NoneVal)) => datosO.ruc = NoneVal
                /\ ~Truthy(detectar_fecha(texto, NoneVal, relojO)) => datosO.fecha = NoneVal
                /\ detectar_numero_documento(texto, NoneVal) = ND =>
                      datosO.numero_documento = ND
                /\ detectar_total(texto, NoneVal) = SinMonto => datosO.total = SinMonto
                /\ detectar_tipo_documento(texto) = OTROS => datosO.tipo_documento = OTROS
                /\ ~Truthy(detectar_razon_social(texto, datosO.ruc, filaO)) =>
                      datosO.razon_social = RAZON_SOCIAL_DESCONOCIDA
        IN Defectos(entradaO.texto)

\* C8: for a text whose lines are those of scenario A, in any order, with the date
\* within the window of the clock, procesar_datos_ocr returns ruc "20123456789",
\* total "1250.00", fecha "2024-03-15" and numero_documento "F001-00001234".
C8_EscenarioA ==
    (/\ pcO = "done"
     /\ entradaO.tipo = "texto"
     /\ Len(SplitLines(entradaO.texto)) = Cardinality(LineasEscenarioA)
     /\ SeqToSet(SplitLines(entradaO.texto)) = LineasEscenarioA
     /\ EnVentana(<<2024, 3, 15>>, relojO)) =>
        /\ datosO.ruc = <<"2", "0", "1", "2", "3", "4", "5", "6", "7", "8", "9">>
        /\ datosO.total = <<"1", "2", "5", "0", ".", "0", "0">>
        /\ datosO.fecha = <<"2", "0", "2", "4", "-", "0", "3", "-", "1", "5">>
        /\ datosO.numero_documento = <<"F", "0", "0", "1", "-", "0", "0", "0", "0", "1", "2", "3", "4">>

\* scenario A has been read with the document number on the first line and the
\* tax id on the last
C8_Witness ==
    /\ pcO = "done"
    /\ entradaO.tipo = "texto"
    /\ Len(SplitLines(entradaO.texto)) = Cardinality(LineasEscenarioA)
    /\ SeqToSet(SplitLines(entradaO.texto)) = LineasEscenarioA
    /\ SplitLines(entradaO.texto)[1] = <<"F", "0", "0", "1", "-", "0", "0", "0", "0", "1", "2", "3", "4">>
    /\ SplitLines(entradaO.texto)[4] = <<"R", "U", "C", ":", " ", "2", "0", "1", "2", "3", "4", "5", "6", "7", "8", "9">>
    /\ EnVentana(<<2024, 3, 15>>, relojO)
    /\ datosO.total = <<"1", "2", "5", "0", ".", "0", "0">>

----------------------------------------------------------------------------
(* procesar_documento_celery on one page *)

TextosNativos == {NoneVal, <<>>, <<" ", "R", "U", "C", ":", " ", "2", "0", "1", "2", "3", "4", "5", "6", "7", "8", "9", " ">>, <<"H", "O", "L", "A", " ", "M", "U", "N", "D", "O">>}

InitTask ==
    /\ paginaT = NoneVal
    /\ relojT = NoneVal
    /\ filaT = NoneVal
    /\ datosOcrT = NoneVal
    /\ datosQrT = NoneVal
    /\ resultadoT = NoneVal
    /\ pcT = "idle"
    /\ ReposoSeq
    /\ ReposoDoc
    /\ ReposoQr
    /\ ReposoOcr
    /\ ReposoFn
    /\ ReposoPag
    /\ ReposoRuta
    /\ ReposoPasos
    /\ ReposoImg
    /\ ReposoNum

Tarea(pagina, hoy, fila_db) ==
    /\ pcT = "idle"
    /\ paginaT' = pagina
    /\ relojT' = hoy
    /\ filaT' = fila_db
    /\ datosOcrT' = procesar_datos_ocr([tipo |-> "texto", texto |-> TextoCrudo(pagina)],
                                       hoy, fila_db)
    /\ datosQrT' = IF ConImagen(pagina) THEN extraer_datos_qr(pagina.qr) ELSE NoneVal
    /\ resultadoT' = procesar_pagina(TextoCrudo(pagina), datosOcrT', ConImagen(pagina), datosQrT')
    /\ pcT' = "done"
    /\ UNCHANGED <<varsSeq, varsDoc, varsQr, varsOcr, varsFn, varsPag, varsRuta, varsPasos, varsImg, varsNum>>

\* a page of a PDF
ProcesarPaginaPdf ==
    \E nativo \in TextosNativos, ocr \in TextosDe(LineasImagen, MaxLineasImagen), qr \in QrDeImagenes,
       hoy \in Relojes, fila_db \in FilasDb :
        Tarea([es_pdf |-> TRUE, nativo |-> nativo, ocr |-> ocr, qr |-> qr], hoy, fila_db)

\* an image file
ProcesarArchivoImagen ==
    \E ocr \in TextosDe(LineasImagen, MaxLineasImagen), qr \in QrDeImagenes, hoy \in Relojes,
       fila_db \in FilasDb :
        Tarea([es_pdf |-> FALSE, nativo |-> NoneVal, ocr |-> ocr, qr |-> qr], hoy, fila_db)

\* open(), pdfplumber, Image.open or tesseract raises: the task returns the error
FallarTarea ==
    /\ pcT = "idle"
    /\ resultadoT' = [error |-> <<"O", "c", "u", "r", "r", "i", "ó", " ", "u", "n", " ", "e", "r", "r", "o", "r", " ", "p", "r", "o", "c", "e", "s", "a", "n", "d", "o", " ", "e", "l", " ", "d", "o", "c", "u", "m", "e", "n", "t", "o">>]
    /\ pcT' = "error"
    /\ UNCHANGED <<paginaT, relojT, filaT, datosOcrT, datosQrT>>
    /\ UNCHANGED <<varsSeq, varsDoc, varsQr, varsOcr, varsFn, varsPag, varsRuta, varsPasos, varsImg, varsNum>>

NextTask == ProcesarPaginaPdf \/ ProcesarArchivoImagen \/ FallarTarea

SpecTask == InitTask /\ [][NextTask]_vars

\* C5: after the merge, the ruc, numero_documento, fecha and total of the record of
\* the page each equal the value extraer_datos_qr decoded whenever that value is
\* not empty.
C5_QrSobreescribe ==
    (pcT = "done" /\ ConImagen(paginaT)) =>
        /\ Truthy(datosQrT.ruc_emisor) =>
              resultadoT.datos_detectados.ruc = datosQrT.ruc_emisor
        /\ Truthy(datosQrT.numero_documento) =>
              resultadoT.datos_detectados.numero_documento = datosQrT.numero_documento
        /\ Truthy(datosQrT.fecha_emision) =>
              resultadoT.datos_detectados.fecha = datosQrT.fecha_emision
        /\ Truthy(datosQrT.total) =>
              resultadoT.datos_detectados.total = datosQrT.total

\* C10: when the decoded QR text has fewer than 4 segments, extraer_datos_qr returns
\* every field empty, and the record of the page is the record procesar_datos_ocr
\* returned, completed by the last two statements and unchanged by the merge.
C10_QrCorto ==
    (/\ pcT = "done"
     /\ ConImagen(paginaT)
     /\ paginaT.qr /= NoneVal
     /\ Len(Split(paginaT.qr, "|")) < MinPartesQr) =>
        /\ datosQrT = DatosQrVacios
        /\ resultadoT.pagina = 1
        /\ resultadoT.texto_extraido = paginaT.ocr
        /\ resultadoT.datos_detectados = Finalizar(datosOcrT)

\* a page whose QR text has three segments and whose text holds a tax id has been
\* processed
C10_Witness ==
    /\ pcT = "done"
    /\ ConImagen(paginaT)
    /\ paginaT.qr = <<"2", "0", "1", "0", "0", "0", "4", "1", "9", "5", "3", "|", "0", "1", "|", "F", "0", "0", "1">>
    /\ datosOcrT.ruc = <<"2", "0", "1", "2", "3", "4", "5", "6", "7", "8", "9">>
    /\ resultadoT.datos_detectados.ruc = <<"2", "0", "1", "2", "3", "4", "5", "6", "7", "8", "9">>

----------------------------------------------------------------------------
(* normalizar_monto and the detectors, each called on its own *)

MaxGrupos == 3

PrimerosGrupos == {<<"1">>, <<"1", "2">>, <<"9", "8", "7">>}
GruposDeMil == {<<"2", "3", "4">>, <<"5", "6", "7">>}
Decimales == {<<"5", "6">>, <<"8", "9">>, <<"0", "0">>}

\* the integer digits of an amount in groups of three, the first group shorter
RECURSIVE GruposDe(_)
GruposDe(n) ==
    IF n = 1 THEN {<<g>> : g \in PrimerosGrupos}
    ELSE {Append(gs, g) : gs \in GruposDe(n - 1), g \in GruposDeMil}

\* amounts of 26 and of 27 digits before the point
EnterosLargos == {<<[i \in 1..26 |-> "9"]>>, <<[i \in 1..27 |-> "1"]>>}

Enteros == {<<<<"0">>>>} \cup UNION {GruposDe(n) : n \in 1..MaxGrupos} \cup EnterosLargos

\* an amount as a receipt prints it
PartesDeMontos ==
    [signo : {<<>>, <<"-">>}, simbolo : {<<>>, <<"S", "/", " ">>}, grupos : Enteros,
     miles : {<<>>, <<",">>, <<".">>}, sep : {<<",">>, <<".">>}, decimales : Decimales]

TextoDeMonto(p) ==
    p.simbolo \o p.signo \o Join(p.miles, p.grupos) \o p.sep \o p.decimales

InitFn ==
    /\ llamadaF = NoneVal
    /\ salidaF = NoneVal
    /\ pcF = "idle"
    /\ ReposoSeq
    /\ ReposoDoc
    /\ ReposoQr
    /\ ReposoOcr
    /\ ReposoTask
    /\ ReposoPag
    /\ ReposoRuta
    /\ ReposoPasos
    /\ ReposoImg
    /\ ReposoNum

\* normalizar_monto(monto_txt)
NormalizarMonto ==
    \E p \in PartesDeMontos :
        /\ pcF = "idle"
        /\ llamadaF' = [fn |-> "normalizar_monto", monto_txt |-> TextoDeMonto(p), partes |-> p]
        /\ salidaF' = normalizar_monto(TextoDeMonto(p))
        /\ pcF' = "done"
        /\ UNCHANGED <<varsSeq, varsDoc, varsQr, varsOcr, varsTask, varsPag, varsRuta, varsPasos, varsImg, varsNum>>


\* the text is the canonical writing of a two-decimal value: an optional '-', the
\* integer digits with no needless leading zero, one '.', two decimals
EsCanonico(s) ==
    LET m == ReMatchAt(Cat(<<Opt(In({"-"})),
                             Alt(<<Cat(<<In(Digits \ {"0"}), Star(Dig)>>), In({"0"})>>),
                             In({"."}), Rep(Dig, 2, 2), Eol>>), s, 1)
    IN m /= NoMatch

\* the digits the canonical text holds before its point
DigitosEnteros(s) == Len(SelectSeq(Split(s, ".")[1], LAMBDA c : c /= "-"))

\* C11 as stated: normalizar_monto returns the canonical string of every
\* two-decimal value (digits, one '.', two decimals, an optional leading '-') as
\* it was given.
C11_Original ==
    (pcF = "done" /\ llamadaF.fn = "normalizar_monto" /\ EsCanonico(llamadaF.monto_txt)) =>
        salidaF = llamadaF.monto_txt

\* C11: normalizar_monto returns the canonical string of a two-decimal value as
\* it was given when the value has at most 26 digits before the point, and
\* returns null for a canonical string of more digits.
C11_IdentidadCanonica ==
    (pcF = "done" /\ llamadaF.fn = "normalizar_monto" /\ EsCanonico(llamadaF.monto_txt)) =>
        IF DigitosEnteros(llamadaF.monto_txt) <= 26
        THEN salidaF = llamadaF.monto_txt
        ELSE salidaF = NoneVal

\* normalizar_monto has returned the canonical text of a negative amount of 26 digits
C11_Witness ==
    /\ pcF = "done"
    /\ llamadaF.fn = "normalizar_monto"
    /\ llamadaF.monto_txt = <<"-">> \o [i \in 1..26 |-> "9"] \o <<".", "8", "9">>
    /\ salidaF = llamadaF.monto_txt

\* the amount the parts of a printed amount write, in canonical form
MontoEscrito(p) == p.signo \o Join(<<>>, p.grupos) \o <<".">> \o p.decimales

Veces(s, c) == Cardinality({i \in 1..Len(s) : s[i] = c})

EjemplosSeparadores ==
    {<<<<"1", ".", "2", "3", "4", ",", "5", "6">>, <<"1", "2", "3", "4", ".", "5", "6">>>>,
     <<<<"1", ",", "2", "3", "4", ".", "5", "6">>, <<"1", "2", "3", "4", ".", "5", "6">>>>,
     <<<<"1", "2", "3", "4", ",", "5", "6">>, <<"1", "2", "3", "4", ".", "5", "6">>>>,
     <<<<"1", ".", "2", "3", "4", ".", "5", "6", "7", ",", "8", "9">>,
       <<"1", "2", "3", "4", "5", "6", "7", ".", "8", "9">>>>}

\* C12: for an amount written with thousands separators of one kind and a decimal
\* separator of the other kind, the rightmost separator is read as the decimal
\* point and the others are dropped; a single ',' with no '.' is read as the
\* decimal point; "1.234,56", "1,234.56" and "1234,56" give "1234.56" and
\* "1.234.567,89" gives "1234567.89" (amounts of at most 26 integer digits).
C12_Separadores ==
    (pcF = "done" /\ llamadaF.fn = "normalizar_monto"
     /\ Len(Join(<<>>, llamadaF.partes.grupos)) <= 26) =>
        /\ (/\ Veces(llamadaF.monto_txt, ",") > 0
            /\ Veces(llamadaF.monto_txt, ".") > 0
            /\ llamadaF.partes.sep /= llamadaF.partes.miles) =>
               salidaF = MontoEscrito(llamadaF.partes)
        /\ (Veces(llamadaF.monto_txt, ",") = 1 /\ Veces(llamadaF.monto_txt, ".") = 0) =>
               salidaF = MontoEscrito(llamadaF.partes)
        /\ \A e \in EjemplosSeparadores : llamadaF.monto_txt = e[1] => salidaF = e[2]

\* normalizar_monto has read "1.234.567,89" as "1234567.89"
C12_Witness ==
    /\ pcF = "done"
    /\ llamadaF.fn = "normalizar_monto"
    /\ llamadaF.monto_txt = <<"1", ".", "2", "3", "4", ".", "5", "6", "7", ",", "8", "9">>
    /\ salidaF = <<"1", "2", "3", "4", "5", "6", "7", ".", "8", "9">>

MaxLineasFn == 2

\* lines that hold the excluded identifier and no other
LineasExcluidas ==
    {<<"R", "U", "C", ":", " ", "2", "0", "5", "0", "8", "5", "5", "8", "9", "9", "7">>, <<"2", "0", "5", "0", "8", "5", "5", "8", "9", "9", "7">>, <<"r", "u", "c", " ", "2", "O", "5", "O", "8", "5", "5", "8", "9", "9", "7">>}

LineasDeRuc ==
    LineasExcluidas \cup
    {<<"R", "U", "C", ":", " ", "2", "0", "1", "2", "3", "4", "5", "6", "7", "8", "9">>, <<"1", "0", "4", "5", "6", "7", "8", "9", "0", "1", "2">>, <<"R", ".", "U", ".", "C", ".", " ", "N", "°", " ", "1", "7", "O", "O", "O", "O", "O", "O", "O", "O", "O">>, <<"R", "U", "C", " ", "3", "0", "1", "2", "3", "4", "5", "6", "7", "8", "9">>,
     <<"R", "U", "C", "2", "0", "1", "0", "0", "0", "4", "1">>, <<"T", "E", "L", "E", "F", "O", "N", "O", " ", "2", "0", "5", "0", "8", "5", "5", "8", "9", "9", "7", "1">>, <<"H", "O", "L", "A", " ", "M", "U", "N", "D", "O">>}

QrExcluidos == {NoneVal, <<>>, <<"2", "0", "5", "0", "8", "5", "5", "8", "9", "9", "7", "|", "0", "1", "|", "F", "0", "0", "1", "|", "1", "2", "3">>, <<" ", "2", "0", "5", "0", "-", "8", "5", "5", "8", "-", "9", "9", "7", " ", "|", "0", "3">>}

QrDeRuc ==
    QrExcluidos \cup {<<"2", "0", "1", "0", "0", "0", "4", "1", "9", "5", "3", "|", "0", "1", "|", "F", "0", "0", "1", "|", "1", "2", "3">>, <<"3", "0", "1", "2", "3", "4", "5", "6", "7", "8", "9", "|", "0", "1", "|", "F", "0", "0", "1", "|", "1", "2", "3">>, <<"2", "0", "1", "0", "0", "0", "4", "1", "9", "5", "|", "0", "1">>, <<"1", "5", "1", "2", "3", "4", "5", "6", "7", "8", "9">>}

\* detectar_ruc(texto, qr_data)
DetectarRuc ==
    \E ls \in Ordenes(LineasDeRuc, MaxLineasFn), qr \in QrDeRuc :
        /\ pcF = "idle"
        /\ llamadaF' = [fn |-> "detectar_ruc", lineas |-> ls, texto |-> Join(<<"\n">>, ls),
                        qr_data |-> qr]
        /\ salidaF' = detectar_ruc(Join(<<"\n">>, ls), qr)
        /\ pcF' = "done"
        /\ UNCHANGED <<varsSeq, varsDoc, varsQr, varsOcr, varsTask, varsPag, varsRuta, varsPasos, varsImg, varsNum>>

\* C13: detectar_ruc returns null or a string of 11 digits that begins with 10, 15,
\* 16, 17 or 20 and is not the excluded identifier 20508558997; when every line of
\* the text and the QR text hold the excluded identifier and no other, it returns
\* null.
C13_RucValidoONulo ==
    (pcF = "done" /\ llamadaF.fn = "detectar_ruc") =>
        /\ \/ salidaF = NoneVal
           \/ /\ Len(salidaF) = 11
              /\ \A i \in 1..11 : salidaF[i] \in {"0", "1", "2", "3", "4", "5", "6", "7", "8", "9"}
              /\ <<salidaF[1], salidaF[2]>> \in {<<"1", "0">>, <<"1", "5">>, <<"1", "6">>, <<"1", "7">>, <<"2", "0">>}
              /\ salidaF /= <<"2", "0", "5", "0", "8", "5", "5", "8", "9", "9", "7">>
        /\ (/\ llamadaF.qr_data \in QrExcluidos
            /\ \A i \in 1..Len(llamadaF.lineas) : llamadaF.lineas[i] \in LineasExcluidas) =>
               salidaF = NoneVal

\* detectar_ruc has returned null for a QR text and two lines that hold the
\* excluded identifier
C13_Witness ==
    /\ pcF = "done"
    /\ llamadaF.fn = "detectar_ruc"
    /\ llamadaF.qr_data = <<"2", "0", "5", "0", "8", "5", "5", "8", "9", "9", "7", "|", "0", "1", "|", "F", "0", "0", "1", "|", "1", "2", "3">>
    /\ llamadaF.lineas = <<<<"R", "U", "C", ":", " ", "2", "0", "5", "0", "8", "5", "5", "8", "9", "9", "7">>, <<"r", "u", "c", " ", "2", "O", "5", "O", "8", "5", "5", "8", "9", "9", "7">>>>
    /\ salidaF = NoneVal


LineasDeNumero ==
    {<<"R", "U", "C", " ", "2", "0", "1", "2", "3", "4", "5", "6", "7", "8", "9">>, <<"D", "N", "I", " ", "1", "2", "3", "4", "5", "6", "7", "8">>, <<"F", "0", "0", "1", "-", "0", "0", "0", "0", "1", "2", "3", "4">>, <<"B", "0", "0", "1", " ", "N", "°", " ", "1", "2", "3", "4", "5", "6", "7", "8">>, <<"2", "0", "1", "2", "3", "4", "5", "6", "7", "8", "9">>,
     <<"1", "2", "3", "4", "5", "6", "7", "8">>, <<"T", "K", " ", "1", "2">>, <<"H", "O", "L", "A", " ", "M", "U", "N", "D", "O">>}

NumerosQrDados == {NoneVal, <<>>, <<" ", " ">>, <<" ", "1", "2", "3", "4", "5", "6", "7", "8", " ">>}

\* detectar_numero_documento(texto, numero_qr)
DetectarNumero ==
    \E ls \in Ordenes(LineasDeNumero, MaxLineasFn), qr \in NumerosQrDados :
        /\ pcF = "idle"
        /\ llamadaF' = [fn |-> "detectar_numero_documento", lineas |-> ls,
                        texto |-> Join(<<"\n">>, ls), numero_qr |-> qr]
        /\ salidaF' = detectar_numero_documento(Join(<<"\n">>, ls), qr)
        /\ pcF' = "done"
        /\ UNCHANGED <<varsSeq, varsDoc, varsQr, varsOcr, varsTask, varsPag, varsRuta, varsPasos, varsImg, varsNum>>

\* the tokens of eight digits of a text
TokensDeOcho(texto) == SeqToSet(FindAll(Cat(<<WordB, Rep(Dig, 8, 8), WordB>>), texto))

SinGuion(s) == SelectSeq(s, LAMBDA c : c /= "-")

LineasDeFecha ==
    {<<"F", "E", "C", "H", "A", " ", "E", "M", "I", "S", "I", "O", "N", " ", "1", "5", "/", "0", "3", "/", "2", "0", "2", "4">>, <<"1", "5", "/", "0", "3", "/", "2", "0", "1", "5">>, <<"0", "1", "/", "0", "1", "/", "2", "0", "3", "1">>, <<"V", "E", "N", "C", "I", "M", "I", "E", "N", "T", "O", " ", "0", "5", "/", "1", "1", "/", "2", "0", "2", "6">>,
     <<"H", "O", "L", "A", " ", "M", "U", "N", "D", "O">>, <<"0", "5", "/", "1", "1", "/", "2", "0", "2", "6">>, <<"2", "0", "2", "5", "-", "1", "1", "-", "2", "4">>}

QrDeFecha ==
    {NoneVal, <<"2", "0", "1", "0", "0", "0", "4", "1", "9", "5", "3", "|", "0", "1", "|", "F", "0", "0", "1", "|", "1", "2", "3", "|", "0", "|", "4", "5", "0", ".", "0", "0", "|", "1", "5", "/", "0", "3", "/", "2", "0", "1", "5">>,
     <<"2", "0", "1", "0", "0", "0", "4", "1", "9", "5", "3", "|", "0", "1", "|", "F", "0", "0", "1", "|", "1", "2", "3", "|", "0", "|", "4", "5", "0", ".", "0", "0", "|", "2", "0", "2", "6", "-", "1", "1", "-", "0", "5">>, <<"2", "0", "1", "0", "0", "0", "4", "1", "9", "5", "3", "|", "0", "1", "|", "F", "0", "0", "1">>}

\* detectar_fecha(texto, qr_data)
DetectarFecha ==
    \E ls \in Ordenes(LineasDeFecha, MaxLineasFn), qr \in QrDeFecha, hoy \in Relojes :
        /\ pcF = "idle"
        /\ llamadaF' = [fn |-> "detectar_fecha", lineas |-> ls, texto |-> Join(<<"\n">>, ls),
                        qr_data |-> qr, hoy |-> hoy]
        /\ salidaF' = detectar_fecha(Join(<<"\n">>, ls), qr, hoy)
        /\ pcF' = "done"
        /\ UNCHANGED <<varsSeq, varsDoc, varsQr, varsOcr, varsTask, varsPag, varsRuta, varsPasos, varsImg, varsNum>>

\* the day number of a date written YYYY-MM-DD
DiaDeIso(s) ==
    Ordinal(<<DigitsVal(SubSeq(s, 1, 4)), DigitsVal(SubSeq(s, 6, 7)), DigitsVal(SubSeq(s, 9, 10))>>)

\* C15: the date detectar_fecha returns lies no more than 5 years (5 * 365 days)
\* before today and no more than 1 day after today; a text or QR code whose only
\* dates lie outside gets null.
C15_FechaEnVentana ==
    (pcF = "done" /\ llamadaF.fn = "detectar_fecha" /\ salidaF /= NoneVal) =>
        /\ DiaDeIso(salidaF) >= llamadaF.hoy.dia - 5 * 365
        /\ DiaDeIso(salidaF) <= llamadaF.hoy.dia + 1


\* the lines of the text as the date search would see them one by one
LineasDeTextoFecha(ls) == [i \in DOMAIN ls |-> Strip(NormalizarTextoFecha(ls[i]))]

\* the dates written on a line, in any of the three forms
FechasEscritas(linea) ==
    FechasDeMatches(linea, ReFindIter(pat_num, linea), 1, "num", 0)
    \o FechasDeMatches(linea, ReFindIter(pat_iso, linea), 1, "iso", 0)
    \o FechasDeMatches(linea, ReFindIter(pat_text, linea), 1, "text", 0)

EscribeFecha(linea, fecha) ==
    \E x \in SeqToSet(FechasEscritas(Strip(NormalizarTextoFecha(linea)))) : Strftime(x[2]) = fecha

\* the call of detectar_fecha took its date from the text
FechaDelTexto ==
    /\ pcF = "done"
    /\ llamadaF.fn = "detectar_fecha"
    /\ FechaDeQr(llamadaF.qr_data) = NoneVal

\* C23: a date detectar_fecha returns of the text is written on a line that does
\* not hold the word VENCIMIENTO: a line of the due date contributes no candidate,
\* wherever it stands among the lines.
C23_SinVencimiento ==
    (FechaDelTexto /\ salidaF /= NoneVal) =>
        \E i \in DOMAIN llamadaF.lineas :
            /\ ~Contains(ToUpper(llamadaF.lineas[i]), <<"V", "E", "N", "C", "I", "M", "I", "E", "N", "T", "O">>)
            /\ EscribeFecha(llamadaF.lineas[i], salidaF)

\* the accepted candidates (line index from 0, date) of the lines: of the lines
\* the search does not skip, within the window
CandidatosAceptados(ls, hoy) ==
    SelectSeq(FechasValidas(LineasDeTextoFecha(ls), 1), LAMBDA x : EnVentana(x[2], hoy))

\* the candidates on the lines nearest to the line ref
MasCercanos(cands, ref) ==
    {c \in SeqToSet(cands) : \A o \in SeqToSet(cands) : Abs(c[1] - ref) <= Abs(o[1] - ref)}

\* the line the choice is made from: the line of FECHA EMISION, else the line of
\* the document number, else the first
LineaDeReferencia(lineas) ==
    LET Elegir(fecha_ref, doc_ref) ==
            IF fecha_ref /= -1 THEN fecha_ref ELSE IF doc_ref /= -1 THEN doc_ref ELSE 0
    IN Elegir(UltimaLineaCon(lineas, PatFechaEmision), UltimaLineaCon(lineas, PatDocRef))

DeLosMasCercanos(cands, lineas, fecha) ==
    \/ Cardinality({c[1] : c \in SeqToSet(cands)}) < 2
    \/ \E c \in MasCercanos(cands, LineaDeReferencia(lineas)) : Strftime(c[2]) = fecha

\* C24: when the text has accepted date candidates on two or more lines,
\* detectar_fecha returns one on the line nearest to the line of FECHA EMISION if
\* there is such a line, otherwise nearest to the line of the document number,
\* otherwise on the first line that has one.
C24_FechaMasCercana ==
    FechaDelTexto =>
        DeLosMasCercanos(CandidatosAceptados(llamadaF.lineas, llamadaF.hoy),
                         LineasDeTextoFecha(llamadaF.lineas), salidaF)

\* r'\d{4}[/-]\d{1,2}[/-]\d{1,2}' over the whole line
PatLineaIso ==
    Cat(<<Rep(Dig, 4, 4), In({"/", "-"}), Rep(Dig, 1, 2), In({"/", "-"}), Rep(Dig, 1, 2)>>)

\* the <<year, month, day>> of a line that is an ISO date, NoneVal for any other line
FechaDeLineaIso(linea) ==
    LET Leer(m) ==
            IF m = NoMatch \/ m.end /= Len(linea) + 1 THEN NoneVal
            ELSE LET Fecha(partes) ==
                         IF EsFechaValida(DigitsVal(partes[1]), DigitsVal(partes[2]),
                                          DigitsVal(partes[3]))
                         THEN <<DigitsVal(partes[1]), DigitsVal(partes[2]), DigitsVal(partes[3])>>
                         ELSE NoneVal
                 IN Fecha(Split(Replace(linea, <<"-">>, <<"/">>), "/"))
    IN Leer(ReMatchAt(PatLineaIso, linea, 1))

SoloFechaIso(ls, hoy) ==
    /\ Len(ls) = 1
    /\ FechaDeLineaIso(ls[1]) /= NoneVal
    /\ EnVentana(FechaDeLineaIso(ls[1]), hoy)

\* C25: for a text that is one well-formed ISO date (with "/" or "-") within the
\* window, detectar_fecha returns that date as YYYY-MM-DD.
C25_FechaIsoExacta ==
    (FechaDelTexto /\ SoloFechaIso(llamadaF.lineas, llamadaF.hoy)) =>
        salidaF = Strftime(FechaDeLineaIso(llamadaF.lineas[1]))

LineasDeTotal ==
    {<<"T", "O", "T", "A", "L", " ", "A", " ", "P", "A", "G", "A", "R", ":", " ", "1", ",", "2", "5", "0", ".", "0", "0">>, <<"I", "G", "V", " ", "1", "8", ".", "0", "0">>, <<"S", "O", "N", " ", "C", "I", "E", "N", " ", "S", "O", "L", "E", "S">>, <<"S", "/", " ", "1", "2", ".", "5", "0">>, <<"T", "O", "T", "A", "L", " ", "0", ".", "0", "0">>,
     <<"H", "O", "L", "A", " ", "M", "U", "N", "D", "O">>}

QrDeTotal == {NoneVal, <<"2", "0", "1", "0", "0", "0", "4", "1", "9", "5", "3", "|", "0", "1", "|", "F", "0", "0", "1", "|", "1", "2", "3", "|", "0", "|", "4", "5", "0", ".", "0", "0", "|", "1", "5", "/", "0", "3", "/", "2", "0", "2", "4">>}

\* detectar_total(texto, qr_data)
DetectarTotal ==
    \E ls \in Ordenes(LineasDeTotal, MaxLineasFn), qr \in QrDeTotal :
        /\ pcF = "idle"
        /\ llamadaF' = [fn |-> "detectar_total", lineas |-> ls, texto |-> Join(<<"\n">>, ls),
                        qr_data |-> qr]
        /\ salidaF' = detectar_total(Join(<<"\n">>, ls), qr)
        /\ pcF' = "done"
        /\ UNCHANGED <<varsSeq, varsDoc, varsQr, varsOcr, varsTask, varsPag, varsRuta, varsPasos, varsImg, varsNum>>

\* the numerals of two decimals of a line
TokensDeMonto(linea) ==
    FindAll(Cat(<<Plus(Dig), Star(Cat(<<In({".", ","}), Rep(Dig, 3, 3)>>)), In({".", ","}),
                  Rep(Dig, 2, 2)>>), linea)

\* C16: without QR, detectar_total returns "0.00" if and only if no line of the
\* text holds a numeral of two decimals.
C16_CeroSiiSinMonto ==
    (pcF = "done" /\ llamadaF.fn = "detectar_total" /\ llamadaF.qr_data = NoneVal) =>
        (salidaF = <<"0", ".", "0", "0">>
            <=> \A i \in 1..Len(llamadaF.lineas) : TokensDeMonto(llamadaF.lineas[i]) = <<>>)

NextFn == NormalizarMonto \/ DetectarRuc \/ DetectarNumero \/ DetectarFecha \/ DetectarTotal

SpecFn == InitFn /\ [][NextFn]_vars

----------------------------------------------------------------------------
(* procesar_documento_celery on a PDF of several pages, and archivo_a_imagenes *)

NPaginas == 2

\* a page: nativo is page.extract_text(), ocr what tesseract reads on its image, qr
\* what the QR decoders read on it, falla whether convert_from_bytes or tesseract
\* raises on it
PaginasPdf ==
    {[es_pdf |-> TRUE, nativo |-> <<"R", "U", "C", ":", " ", "2", "0", "1", "2", "3", "4", "5", "6", "7", "8", "9", "\n", "T", "O", "T", "A", "L", " ", "1", "2", ".", "5", "0">>, ocr |-> <<>>, qr |-> NoneVal,
      falla |-> FALSE],
     [es_pdf |-> TRUE, nativo |-> <<"H", "O", "L", "A", " ", "M", "U", "N", "D", "O">>, ocr |-> <<"T", "O", "T", "A", "L", " ", "A", " ", "P", "A", "G", "A", "R", ":", " ", "1", ",", "2", "5", "0", ".", "0", "0">>,
      qr |-> NoneVal, falla |-> FALSE],
     [es_pdf |-> TRUE, nativo |-> NoneVal, ocr |-> <<"R", "U", "C", ":", " ", "2", "0", "1", "2", "3", "4", "5", "6", "7", "8", "9">>,
      qr |-> <<"2", "0", "1", "0", "0", "0", "4", "1", "9", "5", "3", "|", "0", "1", "|", "F", "0", "0", "1", "|", "1", "2", "3", "|", "0", "|", "4", "5", "0", ".", "0", "0", "|", "1", "5", "/", "0", "3", "/", "2", "0", "2", "4">>, falla |-> FALSE],
     [es_pdf |-> TRUE, nativo |-> <<"H", "O", "L", "A", " ", "M", "U", "N", "D", "O">>, ocr |-> <<>>, qr |-> NoneVal, falla |-> TRUE]}

\* the PDFs of one to NPaginas pages
DocumentosPdf == UNION {[1..n -> PaginasPdf] : n \in 1..NPaginas}

InitPag ==
    /\ docP = <<>>
    /\ relojP = NoneVal
    /\ estadoP = <<>>
    /\ resP = <<>>
    /\ terminadasP = <<>>
    /\ resultadosP = <<>>
    /\ sigP = 0
    /\ retornoP = NoneVal
    /\ pcP = "idle"
    /\ ReposoSeq
    /\ ReposoDoc
    /\ ReposoQr
    /\ ReposoOcr
    /\ ReposoTask
    /\ ReposoFn
    /\ ReposoRuta
    /\ ReposoPasos
    /\ ReposoImg
    /\ ReposoNum

\* the entry procesar_pagina(idx_pag) returns for a page
EntradaDePagina(pagina, idx, hoy) ==
    [procesar_pagina(TextoCrudo(pagina),
                     procesar_datos_ocr([tipo |-> "texto", texto |-> TextoCrudo(pagina)],
                                        hoy, NoneVal),
                     ConImagen(pagina),
                     IF ConImagen(pagina) THEN extraer_datos_qr(pagina.qr) ELSE NoneVal)
        EXCEPT !.pagina = idx]

\* the task opens the PDF and hands every page to the executor
\* (executor.map submits all the pages before any result is read)
AbrirPdf ==
    \E doc \in DocumentosPdf, hoy \in Relojes :
        /\ pcP = "idle"
        /\ docP' = doc
        /\ relojP' = hoy
        /\ estadoP' = [i \in DOMAIN doc |-> "pendiente"]
        /\ resP' = [i \in DOMAIN doc |-> NoneVal]
        /\ sigP' = 1
        /\ pcP' = "paginas"
        /\ UNCHANGED <<terminadasP, resultadosP, retornoP>>
        /\ UNCHANGED <<varsSeq, varsDoc, varsQr, varsOcr, varsTask, varsFn, varsRuta, varsPasos, varsImg, varsNum>>

\* a thread of the executor takes the page
EmpezarPagina(i) ==
    /\ pcP \in {"paginas", "abortando"}
    /\ estadoP[i] = "pendiente"
    /\ estadoP' = [estadoP EXCEPT ![i] = "corriendo"]
    /\ UNCHANGED <<docP, relojP, resP, terminadasP, resultadosP, sigP, retornoP, pcP>>
    /\ UNCHANGED <<varsSeq, varsDoc, varsQr, varsOcr, varsTask, varsFn, varsRuta, varsPasos, varsImg, varsNum>>

\* procesar_pagina(i - 1) returns its entry, or raises where the image of the page
\* cannot be rendered or read
TerminarPagina(i) ==
    /\ pcP \in {"paginas", "abortando"}
    /\ estadoP[i] = "corriendo"
    /\ IF ConImagen(docP[i]) /\ docP[i].falla
       THEN /\ estadoP' = [estadoP EXCEPT ![i] = "fallo"]
            /\ UNCHANGED resP
       ELSE /\ estadoP' = [estadoP EXCEPT ![i] = "hecha"]
            /\ resP' = [resP EXCEPT ![i] = EntradaDePagina(docP[i], i, relojP)]
    /\ terminadasP' = Append(terminadasP, i)
    /\ UNCHANGED <<docP, relojP, resultadosP, sigP, retornoP, pcP>>
    /\ UNCHANGED <<varsSeq, varsDoc, varsQr, varsOcr, varsTask, varsFn, varsRuta, varsPasos, varsImg, varsNum>>

\* the results taken as the pages finish (concurrent.futures.as_completed), not in
\* page order
RecogerAlTerminar ==
    /\ pcP = "paginas"
    /\ \E i \in DOMAIN docP :
          /\ estadoP[i] = "hecha"
          /\ estadoP' = [estadoP EXCEPT ![i] = "recogida"]
          /\ resultadosP' = Append(resultadosP, resP[i])
    /\ sigP' = sigP + 1
    /\ UNCHANGED <<docP, relojP, resP, terminadasP, retornoP, pcP>>
    /\ UNCHANGED <<varsSeq, varsDoc, varsQr, varsOcr, varsTask, varsFn, varsRuta, varsPasos, varsImg, varsNum>>

\* list(executor.map(...)) takes the result of the next page, in page order
Recoger ==
    /\ pcP = "paginas"
    /\ sigP <= Len(docP)
    /\ estadoP[sigP] = "hecha"
    /\ resultadosP' = Append(resultadosP, resP[sigP])
    /\ sigP' = sigP + 1
    /\ UNCHANGED <<docP, relojP, estadoP, resP, terminadasP, retornoP, pcP>>
    /\ UNCHANGED <<varsSeq, varsDoc, varsQr, varsOcr, varsTask, varsFn, varsRuta, varsPasos, varsImg, varsNum>>

\* the result of the next page is an exception: it is raised in the task, the
\* iterator of executor.map cancels the pages no thread has taken, and the exit of
\* the with block waits for the pages that are running
RecogerFallo ==
    /\ pcP = "paginas"
    /\ sigP <= Len(docP)
    /\ estadoP[sigP] = "fallo"
    /\ estadoP' = [i \in DOMAIN estadoP |->
                      IF estadoP[i] = "pendiente" THEN "cancelada" ELSE estadoP[i]]
    /\ pcP' = "abortando"
    /\ UNCHANGED <<docP, relojP, resP, terminadasP, resultadosP, sigP, retornoP>>
    /\ UNCHANGED <<varsSeq, varsDoc, varsQr, varsOcr, varsTask, varsFn, varsRuta, varsPasos, varsImg, varsNum>>

\* return resultados
Devolver ==
    /\ pcP = "paginas"
    /\ sigP = Len(docP) + 1
    /\ retornoP' = [error |-> NoneVal, resultados |-> resultadosP]
    /\ pcP' = "devuelto"
    /\ UNCHANGED <<docP, relojP, estadoP, resP, terminadasP, resultadosP, sigP>>
    /\ UNCHANGED <<varsSeq, varsDoc, varsQr, varsOcr, varsTask, varsFn, varsRuta, varsPasos, varsImg, varsNum>>

\* except Exception: return {"error": ...}
DevolverError ==
    /\ pcP = "abortando"
    /\ \A i \in DOMAIN estadoP : estadoP[i] /= "corriendo"
    /\ retornoP' = [error |-> <<"O", "c", "u", "r", "r", "i", "ó", " ", "u", "n", " ", "e", "r", "r", "o", "r", " ", "p", "r", "o", "c", "e", "s", "a", "n", "d", "o", " ", "e", "l", " ", "d", "o", "c", "u", "m", "e", "n", "t", "o">>,
                    resultados |-> NoneVal]
    /\ pcP' = "devuelto"
    /\ UNCHANGED <<docP, relojP, estadoP, resP, terminadasP, resultadosP, sigP>>
    /\ UNCHANGED <<varsSeq, varsDoc, varsQr, varsOcr, varsTask, varsFn, varsRuta, varsPasos, varsImg, varsNum>>

ClavesTextoNativo ==
    <<<<"R", "U", "C">>, <<"T", "O", "T", "A", "L">>, <<"F", "E", "C", "H", "A">>, <<"I", "M", "P", "O", "R", "T", "E">>>>

\* archivo_a_imagenes(archivo) of a PDF: the pages converted to images (by their
\* numbers) and the native texts. convert_from_bytes converts the whole file, and
\* its exceptions leave the list of images empty.
archivo_a_imagenes(doc) ==
    LET textos_nativos == [i \in DOMAIN doc |-> Or(doc[i].nativo, <<>>)]
    IN [textos_nativos |-> textos_nativos,
        imagenes |->
            IF ContieneAlguna(ToUpper(Join(<<" ">>, textos_nativos)), ClavesTextoNativo)
            THEN <<>>
            ELSE IF \E i \in DOMAIN doc : doc[i].falla THEN <<>>
            ELSE [i \in DOMAIN doc |-> i]]

ArchivoAImagenes ==
    \E doc \in DocumentosPdf :
        /\ pcP = "idle"
        /\ docP' = doc
        /\ retornoP' = archivo_a_imagenes(doc)
        /\ pcP' = "imagenes"
        /\ UNCHANGED <<relojP, estadoP, resP, terminadasP, resultadosP, sigP>>
        /\ UNCHANGED <<varsSeq, varsDoc, varsQr, varsOcr, varsTask, varsFn, varsRuta, varsPasos, varsImg, varsNum>>

NextPag ==
    \/ AbrirPdf
    \/ \E i \in DOMAIN docP : EmpezarPagina(i)
    \/ \E i \in DOMAIN docP : TerminarPagina(i)
    \/ Recoger
    \/ RecogerFallo
    \/ Devolver
    \/ DevolverError
    \/ ArchivoAImagenes

SpecPag == InitPag /\ [][NextPag]_vars

\* C17: when the task has returned, it has returned a list, and every page of the
\* PDF that was processed without error has its entry in that list.
C17_PaginasIndependientes ==
    pcP = "devuelto" =>
        \A i \in DOMAIN docP :
            estadoP[i] = "hecha" =>
                /\ retornoP.error = NoneVal
                /\ \E k \in DOMAIN retornoP.resultados : retornoP.resultados[k] = resP[i]

\* the native text of the page holds RUC, TOTAL or FECHA
TieneClave(pagina) ==
    \E k \in {<<"R", "U", "C">>, <<"T", "O", "T", "A", "L">>, <<"F", "E", "C", "H", "A">>} :
        Contains(ToUpper(Or(pagina.nativo, <<>>)), k)

\* C20: the text of a page is its native text if and only if that native text
\* holds RUC, TOTAL or FECHA, and the text tesseract reads on its image otherwise
\* (procesar_documento_celery); a page is converted to an image for recognition
\* if and only if its own native text holds none of the keywords
\* (archivo_a_imagenes, where conversion does not fail).
C20_DecisionPorPagina ==
    /\ pcP \in {"paginas", "abortando", "devuelto"} =>
          \A i \in DOMAIN docP :
              estadoP[i] = "hecha" =>
                  resP[i].texto_extraido =
                      IF TieneClave(docP[i]) THEN Strip(docP[i].nativo) ELSE docP[i].ocr
    /\ (pcP = "imagenes" /\ \A i \in DOMAIN docP : ~docP[i].falla) =>
          \A i \in DOMAIN docP :
              (\E k \in DOMAIN retornoP.imagenes : retornoP.imagenes[k] = i)
                  <=> ~TieneClave(docP[i])

\* C29: when the task returns the list of a PDF of n pages, the list has n
\* entries and entry i is the entry of page i (its number, its text, its fields),
\* in whatever order the workers of the pages finished.
C29_EntradasEnOrden ==
    (pcP = "devuelto" /\ retornoP.error = NoneVal) =>
        /\ Len(retornoP.resultados) = Len(docP)
        /\ \A i \in DOMAIN docP :
              retornoP.resultados[i] = EntradaDePagina(docP[i], i, relojP)

\* a PDF of two different pages has been returned whose second page finished first
C29_Witness ==
    /\ pcP = "devuelto"
    /\ retornoP.error = NoneVal
    /\ Len(docP) = 2
    /\ docP[1] /= docP[2]
    /\ terminadasP = <<2, 1>>
    /\ retornoP.resultados[1].pagina = 1
    /\ retornoP.resultados[2].pagina = 2

----------------------------------------------------------------------------
(* procesar_datos_ocr called with the path of a PDF *)

\* the pages of a PDF file: native text, the text tesseract reads on the rendered
\* page, the text of the QR code on it
PaginasDeArchivo ==
    {[nativo |-> <<"R", "U", "C", ":", " ", "2", "0", "1", "2", "3", "4", "5", "6", "7", "8", "9">>, ocr |-> <<"R", "U", "C", ":", " ", "2", "0", "1", "2", "3", "4", "5", "6", "7", "8", "9">>,
      qr |-> <<"2", "0", "1", "0", "0", "0", "4", "1", "9", "5", "3", "|", "0", "1", "|", "F", "0", "0", "1", "|", "1", "2", "3", "|", "0", "|", "4", "5", "0", ".", "0", "0", "|", "1", "5", "/", "0", "3", "/", "2", "0", "2", "4">>],
     [nativo |-> <<>>, ocr |-> <<"T", "O", "T", "A", "L", " ", "A", " ", "P", "A", "G", "A", "R", ":", " ", "1", ",", "2", "5", "0", ".", "0", "0">>,
      qr |-> <<"1", "0", "4", "5", "6", "7", "8", "9", "0", "1", "2", "|", "0", "3", "|", "B", "0", "2", "0", "|", "7", "7", "|", "0", "|", "9", "9", ".", "9", "0", "|", "2", "0", "2", "6", "-", "1", "1", "-", "0", "5">>],
     [nativo |-> <<"H", "O", "L", "A", " ", "M", "U", "N", "D", "O">>, ocr |-> <<"H", "O", "L", "A", " ", "M", "U", "N", "D", "O">>, qr |-> NoneVal],
     [nativo |-> NoneVal, ocr |-> <<>>, qr |-> <<"2", "0", "1", "0", "0", "0", "4", "1", "9", "5", "3", "|", "0", "1", "|", "E", "0", "0", "1", "|", "9">>]}

ArchivosPdf == UNION {[1..n -> PaginasDeArchivo] : n \in 1..NPaginas}

procesar_pdf_pdfplumber(archivo) ==
    [i \in DOMAIN archivo |->
        [clase |-> "Page", nativo |-> archivo[i].nativo, ocr |-> archivo[i].ocr,
         qr |-> archivo[i].qr]]

\* procesar_pdf(path_pdf): the pages rendered by convert_from_path, each a PIL
\* image in grey; an image has no extract_text and no to_image
procesar_pdf(archivo) ==
    [i \in DOMAIN archivo |->
        [clase |-> "Image", ocr |-> archivo[i].ocr, qr |-> archivo[i].qr]]

\* the assignments to qr_datos the worker of a page makes, in order: those of a QR
\* code decoded on pag.to_image(), which only a pdfplumber page has
EscriturasQr(pag) ==
    IF pag.clase /= "Page" \/ pag.qr = NoneVal THEN <<>>
    ELSE LET Asignar(partes, q) ==
                 (IF Len(partes) >= MinPartesQr
                  THEN <<<<"numero_documento", q.numero_documento>>>> ELSE <<>>)
                 \o (IF Len(partes) >= MinPartesCabecera
                     THEN <<<<"ruc_emisor", q.ruc_emisor>>, <<"total", q.total>>,
                            <<"fecha_emision", q.fecha_emision>>>>
                     ELSE <<>>)
         IN Asignar(Split(Strip(pag.qr), "|"), QrDatosDePartes(Split(Strip(pag.qr), "|")))

\* txt as the worker returns it: the native text where it holds a keyword, the
\* text tesseract reads otherwise
TextoDePagina(pag) ==
    LET Elegir(txt) ==
            IF ~ContieneAlguna(ToUpper(txt), ClavesTexto) THEN pag.ocr ELSE txt
    IN Elegir(IF pag.clase = "Page" THEN Strip(Or(pag.nativo, <<>>)) ELSE <<>>)

InitRuta ==
    /\ docR = <<>>
    /\ relojR = NoneVal
    /\ qrDatosR = QrDatosVacios
    /\ pendR = <<>>
    /\ estadoR = <<>>
    /\ textosR = <<>>
    /\ datosR = NoneVal
    /\ pcR = "idle"
    /\ ReposoSeq
    /\ ReposoDoc
    /\ ReposoQr
    /\ ReposoOcr
    /\ ReposoTask
    /\ ReposoFn
    /\ ReposoPag
    /\ ReposoPasos
    /\ ReposoImg
    /\ ReposoNum

\* paginas = procesar_pdf(entrada), and every page is handed to the executor
AbrirRuta ==
    \E archivo \in ArchivosPdf, hoy \in Relojes :
        /\ pcR = "idle"
        /\ docR' = procesar_pdf(archivo)
        /\ relojR' = hoy
        /\ pendR' = [i \in DOMAIN archivo |-> <<>>]
        /\ estadoR' = [i \in DOMAIN archivo |-> "pendiente"]
        /\ textosR' = [i \in DOMAIN archivo |-> NoneVal]
        /\ pcR' = "paginas"
        /\ UNCHANGED <<qrDatosR, datosR>>
        /\ UNCHANGED <<varsSeq, varsDoc, varsQr, varsOcr, varsTask, varsFn, varsPag, varsPasos, varsImg, varsNum>>

\* a thread takes the page: its native text is read and its QR code decoded
EmpezarEnRuta(i) ==
    /\ pcR = "paginas"
    /\ estadoR[i] = "pendiente"
    /\ estadoR' = [estadoR EXCEPT ![i] = "corriendo"]
    /\ pendR' = [pendR EXCEPT ![i] = EscriturasQr(docR[i])]
    /\ UNCHANGED <<docR, relojR, qrDatosR, textosR, datosR, pcR>>
    /\ UNCHANGED <<varsSeq, varsDoc, varsQr, varsOcr, varsTask, varsFn, varsPag, varsPasos, varsImg, varsNum>>

\* the next step of the worker of page i: an assignment qr_datos[key] = value of
\* the QR code it decoded, and after the last of them the return of txt
AvanzarEnRuta(i) ==
    /\ pcR = "paginas"
    /\ estadoR[i] = "corriendo"
    /\ IF pendR[i] /= <<>>
       THEN /\ qrDatosR' = [qrDatosR EXCEPT ![pendR[i][1][1]] = pendR[i][1][2]]
            /\ pendR' = [pendR EXCEPT ![i] = Tail(@)]
            /\ UNCHANGED <<estadoR, textosR>>
       ELSE /\ estadoR' = [estadoR EXCEPT ![i] = "hecha"]
            /\ textosR' = [textosR EXCEPT ![i] = TextoDePagina(docR[i])]
            /\ UNCHANGED <<qrDatosR, pendR>>
    /\ UNCHANGED <<docR, relojR, datosR, pcR>>
    /\ UNCHANGED <<varsSeq, varsDoc, varsQr, varsOcr, varsTask, varsFn, varsPag, varsPasos, varsImg, varsNum>>

\* texto = "\n".join(textos), and the rest of procesar_datos_ocr on it
UnirTextos ==
    /\ pcR = "paginas"
    /\ \A i \in DOMAIN estadoR : estadoR[i] = "hecha"
    /\ datosR' = DatosDe(Join(<<"\n">>, textosR), qrDatosR, relojR, NoneVal)
    /\ pcR' = "devuelto"
    /\ UNCHANGED <<docR, relojR, qrDatosR, pendR, estadoR, textosR>>
    /\ UNCHANGED <<varsSeq, varsDoc, varsQr, varsOcr, varsTask, varsFn, varsPag, varsPasos, varsImg, varsNum>>

NextRuta ==
    \/ AbrirRuta
    \/ \E i \in DOMAIN docR : EmpezarEnRuta(i)
    \/ \E i \in DOMAIN docR : AvanzarEnRuta(i)
    \/ UnirTextos

SpecRuta == InitRuta /\ [][NextRuta]_vars

RECURSIVE QrEnOrden(_, _, _)
\* qr_datos after the workers of pages k, k + 1, ... have run one after the other
QrEnOrden(doc, k, qr_datos) ==
    IF k > Len(doc) THEN qr_datos
    ELSE LET RECURSIVE Aplicar(_, _)
             Aplicar(es, q) ==
                 IF es = <<>> THEN q ELSE Aplicar(Tail(es), [q EXCEPT ![es[1][1]] = es[1][2]])
         IN QrEnOrden(doc, k + 1, Aplicar(EscriturasQr(doc[k]), qr_datos))

----------------------------------------------------------------------------
(* guardar_documento: numbering and acceptance of the record *)

\* C19: the operation counter is accessed for a document only after its
\* record has been validated and accepted: while a request holds a generated
\* number its record has already passed serializer.is_valid(), and a request
\* whose record was rejected (answered anything but 201) never generated one.
C19_NumeracionTrasAceptacion ==
    \A r \in Requests :
        /\ numD[r] /= NoneVal => pcD[r] /= "is_valid"
        /\ (pcD[r] = "done" /\ statusD[r].codigo /= 201) => numD[r] = NoneVal


----------------------------------------------------------------------------
(* procesar_documento_celery: the worker of one page, statement by statement *)

InitPasos ==
    /\ paginaK = NoneVal
    /\ relojK = NoneVal
    /\ pcK = "idle"
    /\ pasosK = <<>>
    /\ textoK = NoneVal
    /\ imagenK = FALSE
    /\ datosK = NoneVal
    /\ datosQrK = NoneVal
    /\ resK = NoneVal
    /\ ReposoSeq
    /\ ReposoDoc
    /\ ReposoQr
    /\ ReposoOcr
    /\ ReposoTask
    /\ ReposoFn
    /\ ReposoPag
    /\ ReposoRuta
    /\ ReposoImg
    /\ ReposoNum

\* if es_pdf: procesar_pagina(idx_pag) is called for a page of the PDF
EmpezarPaginaPdf ==
    \E nativo \in TextosNativos, ocr \in TextosDe(LineasImagen, MaxLineasImagen), qr \in QrDeImagenes,
       hoy \in Relojes :
        /\ pcK = "idle"
        /\ paginaK' = [es_pdf |-> TRUE, nativo |-> nativo, ocr |-> ocr, qr |-> qr]
        /\ relojK' = hoy
        /\ pcK' = "extract_text"
        /\ UNCHANGED <<pasosK, textoK, imagenK, datosK, datosQrK, resK>>
        /\ UNCHANGED <<varsSeq, varsDoc, varsQr, varsOcr, varsTask, varsFn, varsPag, varsRuta, varsImg, varsNum>>

\* else: imagen = Image.open(...), convert("RGB"), resize, rotate
AbrirImagen ==
    \E ocr \in TextosDe(LineasImagen, MaxLineasImagen), qr \in QrDeImagenes, hoy \in Relojes :
        /\ pcK = "idle"
        /\ paginaK' = [es_pdf |-> FALSE, nativo |-> NoneVal, ocr |-> ocr, qr |-> qr]
        /\ relojK' = hoy
        /\ imagenK' = TRUE
        /\ pcK' = "extraer_datos_qr"
        /\ UNCHANGED <<pasosK, textoK, datosK, datosQrK, resK>>
        /\ UNCHANGED <<varsSeq, varsDoc, varsQr, varsOcr, varsTask, varsFn, varsPag, varsRuta, varsImg, varsNum>>

\* texto_crudo = (page.extract_text() or "").strip(); the test on RUC, TOTAL, FECHA
ExtraerTextoNativo ==
    /\ pcK = "extract_text"
    /\ textoK' = Strip(Or(paginaK.nativo, <<>>))
    /\ pasosK' = Append(pasosK, "texto_nativo")
    /\ pcK' = IF ContieneAlguna(ToUpper(textoK'), ClavesTexto) THEN "procesar_datos_ocr"
              ELSE "convert_from_bytes"
    /\ UNCHANGED <<paginaK, relojK, imagenK, datosK, datosQrK, resK>>
    /\ UNCHANGED <<varsSeq, varsDoc, varsQr, varsOcr, varsTask, varsFn, varsPag, varsRuta, varsImg, varsNum>>

\* imagen = convert_from_bytes(...)[0], resize, rotate;
\* texto_crudo = pytesseract.image_to_string(imagen, lang="spa")
ReconocerPagina ==
    /\ pcK = "convert_from_bytes"
    /\ imagenK' = TRUE
    /\ textoK' = paginaK.ocr
    /\ pasosK' = Append(pasosK, "texto_ocr")
    /\ pcK' = "procesar_datos_ocr"
    /\ UNCHANGED <<paginaK, relojK, datosK, datosQrK, resK>>
    /\ UNCHANGED <<varsSeq, varsDoc, varsQr, varsOcr, varsTask, varsFn, varsPag, varsRuta, varsImg, varsNum>>

\* datos_qr = extraer_datos_qr(imagen, debug=True)
EscanearQrDePagina ==
    /\ pcK = "extraer_datos_qr"
    /\ datosQrK' = extraer_datos_qr(paginaK.qr)
    /\ pasosK' = Append(pasosK, "qr")
    /\ pcK' = IF paginaK.es_pdf THEN "update" ELSE "image_to_string"
    /\ UNCHANGED <<paginaK, relojK, textoK, imagenK, datosK, resK>>
    /\ UNCHANGED <<varsSeq, varsDoc, varsQr, varsOcr, varsTask, varsFn, varsPag, varsRuta, varsImg, varsNum>>

\* image file: texto_crudo = pytesseract.image_to_string(imagen, lang="spa")
ReconocerImagen ==
    /\ pcK = "image_to_string"
    /\ textoK' = paginaK.ocr
    /\ pasosK' = Append(pasosK, "texto_ocr")
    /\ pcK' = "procesar_datos_ocr"
    /\ UNCHANGED <<paginaK, relojK, imagenK, datosK, datosQrK, resK>>
    /\ UNCHANGED <<varsSeq, varsDoc, varsQr, varsOcr, varsTask, varsFn, varsPag, varsRuta, varsImg, varsNum>>

\* datos = procesar_datos_ocr(texto_crudo, debug=False); in a page of a PDF the test
\* `if imagen is not None` follows
Detectores ==
    /\ pcK = "procesar_datos_ocr"
    /\ datosK' = procesar_datos_ocr([tipo |-> "texto", texto |-> textoK], relojK, NoneVal)
    /\ pasosK' = Append(pasosK, "detectores")
    /\ pcK' = IF ~paginaK.es_pdf THEN "update"
              ELSE IF imagenK THEN "extraer_datos_qr"
              ELSE "return"
    /\ UNCHANGED <<paginaK, relojK, textoK, imagenK, datosQrK, resK>>
    /\ UNCHANGED <<varsSeq, varsDoc, varsQr, varsOcr, varsTask, varsFn, varsPag, varsRuta, varsImg, varsNum>>

\* if any(datos_qr.values()): datos.update({k: v for k, v in datos_qr.items() if v})
Mezclar ==
    /\ pcK = "update"
    /\ datosK' = MergeQr(datosK, datosQrK)
    /\ pasosK' = Append(pasosK, "merge")
    /\ pcK' = "return"
    /\ UNCHANGED <<paginaK, relojK, textoK, imagenK, datosQrK, resK>>
    /\ UNCHANGED <<varsSeq, varsDoc, varsQr, varsOcr, varsTask, varsFn, varsPag, varsRuta, varsImg, varsNum>>

\* the last two statements on datos, and the entry of the page
Resultado ==
    /\ pcK = "return"
    /\ resK' = [pagina |-> 1, texto_extraido |-> textoK, datos_detectados |-> Finalizar(datosK)]
    /\ pasosK' = Append(pasosK, "resultado")
    /\ pcK' = "done"
    /\ UNCHANGED <<paginaK, relojK, textoK, imagenK, datosK, datosQrK>>
    /\ UNCHANGED <<varsSeq, varsDoc, varsQr, varsOcr, varsTask, varsFn, varsPag, varsRuta, varsImg, varsNum>>

NextPasos ==
    \/ EmpezarPaginaPdf
    \/ AbrirImagen
    \/ ExtraerTextoNativo
    \/ ReconocerPagina
    \/ EscanearQrDePagina
    \/ ReconocerImagen
    \/ Detectores
    \/ Mezclar
    \/ Resultado

SpecPasos == InitPasos /\ [][NextPasos]_vars

\* the number of times the step appears in the list
VecesPaso(pasos, paso) == Cardinality({i \in DOMAIN pasos : pasos[i] = paso})

\* C21: when the worker of a page has returned, the QR scan has been attempted on
\* that page exactly once, on a page whose native text was sufficient as on a page
\* that needed optical recognition.
C21_QrUnaVezPorPagina ==
    pcK = "done" => VecesPaso(pasosK, "qr") = 1

\* the place of a step in the order text acquisition, QR scan, detectors, merge,
\* page result
RangoDePaso(paso) ==
    CASE paso \in {"texto_nativo", "texto_ocr"} -> 1
      [] paso = "qr" -> 2
      [] paso = "detectores" -> 3
      [] paso = "merge" -> 4
      [] paso = "resultado" -> 5

\* C22: on a page of a PDF and on an image file, the steps done so far are in the
\* order text acquisition (native or optical), QR scan, detectors, merge, page
\* result: no step is done after a step of a later place, so the detectors never
\* run before the QR scan of the page.
C22_OrdenDePasos ==
    \A i, j \in DOMAIN pasosK :
        i < j => RangoDePaso(pasosK[i]) <= RangoDePaso(pasosK[j])


----------------------------------------------------------------------------
(* procesar_datos_ocr on an image: the preprocessing, statement by statement *)

\* widths and heights of images, in pixels
Lados == {800, 999, 1200, 1600, 2400}

InitImg ==
    /\ entradaI = NoneVal
    /\ relojI = NoneVal
    /\ imgI = NoneVal
    /\ pcI = "idle"
    /\ fallosI = {}
    /\ qrDatosI = NoneVal
    /\ textoI = NoneVal
    /\ datosI = NoneVal
    /\ ReposoSeq
    /\ ReposoDoc
    /\ ReposoQr
    /\ ReposoOcr
    /\ ReposoTask
    /\ ReposoFn
    /\ ReposoPag
    /\ ReposoRuta
    /\ ReposoPasos
    /\ ReposoNum

\* an exception no handler of procesar_datos_ocr catches leaves the call
Lanzar(paso) ==
    /\ fallosI' = fallosI \cup {paso}
    /\ pcI' = "raised"

\* procesar_datos_ocr(entrada) with a PIL image
LlamarConImagen ==
    \E ancho \in Lados, alto \in Lados, texto \in {<<"R", "U", "C", ":", " ", "2", "0", "1", "2", "3", "4", "5", "6", "7", "8", "9">>},
       qr \in {NoneVal, Join(<<"|">>, SubSeq(SegmentosC, 1, MinPartesCabecera))}, hoy \in Relojes :
        /\ pcI = "idle"
        /\ entradaI' = [ancho |-> ancho, alto |-> alto, ocr |-> texto, qr |-> qr]
        /\ relojI' = hoy
        /\ imgI' = <<ancho, alto>>
        /\ pcI' = "procesar_imagen_camara"
        /\ UNCHANGED <<fallosI, qrDatosI, textoI, datosI>>
        /\ UNCHANGED <<varsSeq, varsDoc, varsQr, varsOcr, varsTask, varsFn, varsPag, varsRuta, varsPasos, varsNum>>

AnchoCamara == 1500

\* int(a * b / c) of positive integers
EscalaEntera(a, b, c) == (a * b) \div c

\* procesar_imagen_camara: the width brought down to 1500, the height in proportion
procesar_imagen_camara(img) ==
    IF img[1] > AnchoCamara THEN <<AnchoCamara, EscalaEntera(img[2], AnchoCamara, img[1])>>
    ELSE img

\* img_opt = procesar_imagen_camara(entrada);
\* img_cv = cv2.cvtColor(np.array(img_opt), cv2.COLOR_RGB2BGR)
ProcesarImagenCamara ==
    /\ pcI = "procesar_imagen_camara"
    /\ \/ /\ imgI' = procesar_imagen_camara(imgI)
          /\ pcI' = "corregir_perspectiva"
          /\ UNCHANGED fallosI
       \/ /\ Lanzar("camara")
          /\ UNCHANGED imgI
    /\ UNCHANGED <<entradaI, relojI, qrDatosI, textoI, datosI>>
    /\ UNCHANGED <<varsSeq, varsDoc, varsQr, varsOcr, varsTask, varsFn, varsPag, varsRuta, varsPasos, varsNum>>

\* img_cv = corregir_perspectiva(img_cv): no contour of four corners, the image
\* as it was; a contour, the image warped to maxWidth x maxHeight; or an error of
\* OpenCV, which no statement catches
CorregirPerspectiva ==
    /\ pcI = "corregir_perspectiva"
    /\ \/ /\ pcI' = "pyzbar"
          /\ UNCHANGED <<imgI, fallosI>>
       \/ \E maxWidth \in Lados, maxHeight \in Lados :
             /\ maxWidth <= imgI[1] + imgI[2]
             /\ maxHeight <= imgI[1] + imgI[2]
             /\ imgI' = <<maxWidth, maxHeight>>
             /\ pcI' = "pyzbar"
             /\ UNCHANGED fallosI
       \/ /\ Lanzar("perspectiva")
          /\ UNCHANGED imgI
    /\ UNCHANGED <<entradaI, relojI, qrDatosI, textoI, datosI>>
    /\ UNCHANGED <<varsSeq, varsDoc, varsQr, varsOcr, varsTask, varsFn, varsPag, varsRuta, varsPasos, varsNum>>

\* qr_codes = pyzbar.decode(np.array(img_opt)) and the reading of its segments
DecodificarQr ==
    /\ pcI = "pyzbar"
    /\ qrDatosI' = QrDatosDeImagen(entradaI.qr)
    /\ pcI' = "asegurar_orientacion_vertical"
    /\ UNCHANGED <<entradaI, relojI, imgI, fallosI, textoI, datosI>>
    /\ UNCHANGED <<varsSeq, varsDoc, varsQr, varsOcr, varsTask, varsFn, varsPag, varsRuta, varsPasos, varsNum>>

\* img.rotate(angulo, expand=True) for a multiple of 90
Rotar(img, angulo) == IF angulo \in {90, 270} THEN <<img[2], img[1]>> ELSE img

\* if img.width > img.height: img = img.rotate(90, expand=True)
Vertical(img) == IF img[1] > img[2] THEN Rotar(img, 90) ELSE img

\* the rotations pytesseract.image_to_osd reports
RotacionesOsd == {0, 90, 180, 270}

\* asegurar_orientacion_vertical(img_opt): an image made of an array has no EXIF;
\* the rotation to portrait; the rotation OSD reports, none when OSD raises
\* (the except clause of the function)
AsegurarOrientacion ==
    /\ pcI = "asegurar_orientacion_vertical"
    /\ \/ \E rotation \in RotacionesOsd :
             /\ imgI' = Rotar(Vertical(imgI), rotation)
             /\ UNCHANGED fallosI
       \/ /\ imgI' = Vertical(imgI)
          /\ fallosI' = fallosI \cup {"deskew"}
    /\ pcI' = "resize"
    /\ UNCHANGED <<entradaI, relojI, qrDatosI, textoI, datosI>>
    /\ UNCHANGED <<varsSeq, varsDoc, varsQr, varsOcr, varsTask, varsFn, varsPag, varsRuta, varsPasos, varsNum>>

AnchoMaximo == 1200
AltoMinimo == 1000

Max(a, b) == IF a >= b THEN a ELSE b

\* if w > 1200 or h < 1000: h = max(int(h * 1200 / w), 1000); w = int(w * h / h0)
Redimension(img) ==
    LET ConAlto(h) == <<EscalaEntera(img[1], h, img[2]), h>>
    IN IF img[1] > AnchoMaximo \/ img[2] < AltoMinimo
       THEN ConAlto(Max(EscalaEntera(img[2], AnchoMaximo, img[1]), AltoMinimo))
       ELSE img

Redimensionar ==
    /\ pcI = "resize"
    /\ imgI' = Redimension(imgI)
    /\ pcI' = "image_to_string"
    /\ UNCHANGED <<entradaI, relojI, fallosI, qrDatosI, textoI, datosI>>
    /\ UNCHANGED <<varsSeq, varsDoc, varsQr, varsOcr, varsTask, varsFn, varsPag, varsRuta, varsPasos, varsNum>>

\* the filters of PIL and texto = pytesseract.image_to_string(img_bin, lang="spa")
ReconocerTexto ==
    /\ pcI = "image_to_string"
    /\ \/ /\ textoI' = entradaI.ocr
          /\ pcI' = "detectores"
          /\ UNCHANGED fallosI
       \/ /\ Lanzar("tesseract")
          /\ UNCHANGED textoI
    /\ UNCHANGED <<entradaI, relojI, imgI, qrDatosI, datosI>>
    /\ UNCHANGED <<varsSeq, varsDoc, varsQr, varsOcr, varsTask, varsFn, varsPag, varsRuta, varsPasos, varsNum>>

\* the detectors, the merge with qr_datos and the return
DetectarEnImagen ==
    /\ pcI = "detectores"
    /\ datosI' = DatosDe(textoI, qrDatosI, relojI, NoneVal)
    /\ pcI' = "returned"
    /\ UNCHANGED <<entradaI, relojI, imgI, fallosI, qrDatosI, textoI>>
    /\ UNCHANGED <<varsSeq, varsDoc, varsQr, varsOcr, varsTask, varsFn, varsPag, varsRuta, varsPasos, varsNum>>

NextImg ==
    \/ LlamarConImagen
    \/ ProcesarImagenCamara
    \/ CorregirPerspectiva
    \/ DecodificarQr
    \/ AsegurarOrientacion
    \/ Redimensionar
    \/ ReconocerTexto
    \/ DetectarEnImagen

SpecImg == InitImg /\ [][NextImg]_vars

C27_MedidasAcotadas ==
    pcI \in {"image_to_string", "detectores", "returned"} =>
        /\ imgI[2] >= AltoMinimo
        /\ imgI[1] <= AnchoMaximo


----------------------------------------------------------------------------
(* generar_numero_operacion: successive calls, a document stored after each *)

MaxLlamadas == 3

\* the last numbers stored for the prefix today when the calls begin
UltimosGuardados == {{}, {1}, {41, 42}, {9997, 9998}, {9998, 9999}}

PrefijoSol == <<"S", "O", "L">>

InitNum ==
    /\ prefijoN \in {PrefijoDoc, PrefijoSol}
    /\ \E ns \in UltimosGuardados, otros \in {{}, {NumeroOperacion(PrefijoDoc, Ayer, 3)}} :
          docsN = {NumeroOperacion(prefijoN, Hoy, n) : n \in ns} \cup otros
    /\ devueltosN = <<>>
    /\ pcN = "llamar"
    /\ ReposoSeq
    /\ ReposoDoc
    /\ ReposoQr
    /\ ReposoOcr
    /\ ReposoTask
    /\ ReposoFn
    /\ ReposoPag
    /\ ReposoRuta
    /\ ReposoPasos
    /\ ReposoImg

\* numero = generar_numero_operacion(prefix)
LlamarGenerarNumero ==
    /\ pcN = "llamar"
    /\ Len(devueltosN) < MaxLlamadas
    /\ devueltosN' = Append(devueltosN, generar_numero_operacion(docsN, prefijoN, Hoy))
    /\ pcN' = "guardar"
    /\ UNCHANGED <<docsN, prefijoN>>
    /\ UNCHANGED <<varsSeq, varsDoc, varsQr, varsOcr, varsTask, varsFn, varsPag, varsRuta, varsPasos, varsImg>>

\* a DocumentoGasto with the number is stored; numero_operacion is unique=True, and
\* the INSERT of a number that is stored already raises IntegrityError
GuardarConNumero ==
    /\ pcN = "guardar"
    /\ IF devueltosN[Len(devueltosN)] \in docsN
       THEN /\ pcN' = "IntegrityError"
            /\ UNCHANGED docsN
       ELSE /\ docsN' = docsN \cup {devueltosN[Len(devueltosN)]}
            /\ pcN' = "llamar"
    /\ UNCHANGED <<prefijoN, devueltosN>>
    /\ UNCHANGED <<varsSeq, varsDoc, varsQr, varsOcr, varsTask, varsFn, varsPag, varsRuta, varsPasos, varsImg>>

NextNum == LlamarGenerarNumero \/ GuardarConNumero

SpecNum == InitNum /\ [][NextNum]_vars

\* the identifier is PREFIX-YYYYMMDD-NNNN: the prefix, the day, four digits
EsNumeroDeOperacion(numero, prefix, fecha_str) ==
    /\ Len(numero) = Len(prefix) + Len(fecha_str) + 6
    /\ StartsWith(numero, prefix \o <<"-">> \o fecha_str \o <<"-">>)
    /\ IsDigits(SubSeq(numero, Len(numero) - 3, Len(numero)))

\* C28: the identifiers successive calls of generar_numero_operacion return for a
\* prefix on one day, a document being stored with each before the next call, are
\* pairwise distinct, strictly increasing and of the form PREFIX-YYYYMMDD-NNNN,
\* also after the counter passes 9999.
C28_NumerosCrecientes ==
    /\ \A i \in DOMAIN devueltosN : EsNumeroDeOperacion(devueltosN[i], prefijoN, Hoy)
    /\ \A i, j \in DOMAIN devueltosN :
          i < j => /\ devueltosN[i] /= devueltosN[j]
                   /\ UltimoNum(devueltosN[i]) < UltimoNum(devueltosN[j])


----------------------------------------------------------------------------
(* the two decodings of the text of a QR code *)

\* the fields the two decodings have in common, by their names in either dict
MismosCamposQr(datos_qr, qr_datos) ==
    /\ datos_qr.ruc_emisor = qr_datos.ruc_emisor
    /\ datos_qr.numero_documento = qr_datos.numero_documento
    /\ datos_qr.fecha_emision = qr_datos.fecha_emision
    /\ datos_qr.total = qr_datos.total

\* C30: for every text decoded from a QR code, extraer_datos_qr and the decoding
\* written inside procesar_datos_ocr give the same tax id, document number, issue
\* date and total: each field present in both or in neither, with the same value.
C30_DecodificadoresIguales ==
    pcQ = "done" => MismosCamposQr(datosQ, QrDatosDeImagen(contenidoQ))

====
